---- MODULE Spec2Model ----
(***************************************************************************)
(* Model of pi-naim-av2: the serial command engine                         *)
(*   src/src/naim-av2/naim-av2-port.ts   (class NaimAV2Port)               *)
(* and the facade that caches the device state and decodes its responses   *)
(*   src/src/naim-av2/naim-av2.ts        (class NaimAV2)                   *)
(*                                                                         *)
(* Time.  The code reads the wall clock only as the difference             *)
(*   Date.now() - this.lastSendCommandEndTime                              *)
(* and through setTimeout/setInterval delays.  The model therefore keeps   *)
(* that difference as a clock (sinceLastSendCommandEnd, in ms, reset to 0  *)
(* by the assignment lastSendCommandEndTime = Date.now(), saturating at    *)
(* ElapsedCap, above every threshold the code compares it with) and every  *)
(* pending timer as the number of ms left before it is due.  Advance(d)    *)
(* lets d ms pass.  A timer callback runs when its time is up or later,    *)
(* never earlier; a drain callback runs any time after the drain call.     *)
(***************************************************************************)
EXTENDS Integers, Sequences, FiniteSets, TLC

(* ------------------------------ bounds -------------------------------- *)

\* number of sendCommand calls explored in one behaviour
MaxCmds == 3
\* number of channel errors (failed writes or drains) explored in one behaviour
MaxErrors == 1
\* value at which the clocks stop counting (above the 200 ms threshold)
ElapsedCap == 205

\* amounts of time (ms) that pass in one Advance step: the tick period and
\* 105 - 25, so that elapsed times of exactly 105 ms and exactly 200 ms occur
TimeSteps == {25, 80}

(* ------------------------- program constants -------------------------- *)

MESSAGE_HEADER == <<42>>
MESSAGE_DEVICE_ID == <<65, 86, 50>>
MESSAGE_SPACE == <<32>>
MESSAGE_EOL == <<255>>
COMMAND_QUEUE_INTERVAL == 25
MIN_COMMAND_GAP == 105
IDLE_THRESHOLD == 200
HEADER_DELAY == 25

\* NaimAV2Commands.ON
CMD_ON == <<33>>
\* NaimAV2Commands.VOLUME + String.fromCharCode(50)
CMD_VOLUME_50 == <<35, 50>>
\* the command strings passed to sendCommand in the explored behaviours
Commands == {CMD_ON, CMD_VOLUME_50}

(* ------------------------------ helpers ------------------------------- *)

Min(a, b) == IF a < b THEN a ELSE b
Max(a, b) == IF a > b THEN a ELSE b

\* Buffer.from(str, 'ascii'): one byte per character, the low 8 bits
AsciiBuffer(str) == [i \in 1..Len(str) |-> str[i] % 256]

\* the lone header byte of the first write
HeaderBytes == AsciiBuffer(MESSAGE_HEADER)

\* the complete frame of the second write
FrameBytes(command) ==
    AsciiBuffer(MESSAGE_HEADER \o MESSAGE_DEVICE_ID \o MESSAGE_SPACE
                \o command \o MESSAGE_EOL)

\* const messageDelay = timeSinceLast < 105
MessageDelay(timeSinceLast) == timeSinceLast < MIN_COMMAND_GAP

\* variant: the idle threshold compared with >= instead of >
HeaderDelayAtThreshold(timeSinceLast) == timeSinceLast >= IDLE_THRESHOLD

\* const headerDelay = timeSinceLast > 200
HeaderDelay(timeSinceLast) == timeSinceLast > IDLE_THRESHOLD

\* variant: the outer setTimeout always started with delay 0
StartDelayNone(timeSinceLast) == 0

\* the delay of the outer setTimeout: messageDelay ? (105 - timeSinceLast) : 0
StartDelayMs(timeSinceLast) ==
    IF MessageDelay(timeSinceLast) THEN MIN_COMMAND_GAP - timeSinceLast ELSE 0

\* the delay of the inner setTimeout: headerDelay ? 25 : 0
FrameDelayMs(headerDelay) == IF headerDelay THEN HEADER_DELAY ELSE 0

\* variant: the tick looks at the queue only, not at the busy flag
TickIsNoOpIgnoringBusy(busy, buffer) == Len(buffer) = 0

\* if (this.sending || this.sendBuffer.length === 0) return;
TickIsNoOp(busy, buffer) == busy \/ Len(buffer) = 0

\* variant: a command equal to the queue's last entry is not queued again
PushUnlessDuplicate(buffer, command) ==
    IF Len(buffer) > 0 /\ buffer[Len(buffer)] = command
    THEN buffer
    ELSE Append(buffer, command)

\* variant: unshift instead of push
PushFront(buffer, command) == <<command>> \o buffer

\* this.sendBuffer.push(command)
Push(buffer, command) == Append(buffer, command)

\* what this.sendBuffer.shift() returns, and what it leaves in the array
ShiftHead(buffer) == Head(buffer)
\* variant: the head is read but left in the array
ShiftRestKeepsHead(buffer) == buffer
ShiftRest(buffer) == Tail(buffer)

RemoveAt(s, i) == [j \in 1..(Len(s) - 1) |-> IF j < i THEN s[j] ELSE s[j + 1]]

(* ------------------------------- state -------------------------------- *)

VARIABLES
    opened,                   \* the serial port's 'open' event has fired
    tickWait,                 \* ms until the setInterval timer is next due
    sendBuffer,               \* this.sendBuffer
    sending,                  \* this.sending
    sinceLastSendCommandEnd,  \* Date.now() - this.lastSendCommandEndTime
    sinceLastStart,           \* ms since the latest lone header byte was written,
                              \* counted up to the 105 ms it is compared with
    chains,                   \* the callback chains of processCommandQueue in progress
    wire,                     \* every serial.write call so far, in order
    enqueued,                 \* every sendCommand argument so far, in order
    errors                    \* 'error' events and failed drains so far

\* the facade (class NaimAV2) that owns the port
VARIABLES
    started,                  \* this.started, the startup bitmask
    state,                    \* this.state, the cached device state
    volumeChangeTimeout,      \* this.volumeChangeTimeout: 0 for null, else the
                              \* number of the setTimeout call that made the handle
    stateChangeCount,         \* 'stateChange' events emitted so far
    readyCount,               \* 'ready' events emitted by the facade so far
    setterCalls,              \* calls of setters made from outside so far
    decoded,                  \* the cases of processAV2Response run so far
    lastCall,                 \* the latest call made from outside: a setter call
                              \* with its arguments or a parser 'data' event
                              \* with its chunk
    timers,                   \* the setTimeout timers of the facade that are
                              \* pending: the handle's number and the ms left
    sinceVolumeChange,        \* ms since setVolume last called setTimeout,
                              \* counted up to VolumeClockCap
    cecSent,                  \* every this.cec.sendCommand call of
                              \* syncTelevisionVolume so far, in order
    notifications,            \* the arguments of every 'stateChange' event a
                              \* listener added from outside has received
    lastSent                  \* what the latest setter call, or the 'ready'
                              \* listener, handed to sendCommand, in order

\* the amplifier at the other end of the serial line
VARIABLES
    device,                   \* the amplifier's own power, mute, volume and
                              \* current input
    deviceRead,               \* how many of the complete frames written
                              \* have reached the amplifier
    inbox                     \* the responses the amplifier has sent that
                              \* the parser has not delivered yet, in order

\* the media player watcher (class MoodePlayer)
VARIABLES
    playing,                  \* this.playing: <<>> for null, else <<boolean>>
    debounce,                 \* this.debounce
    mediaInfo,                \* this.mediaInfo: <<>> for null, else <<info>>
    successive,               \* audio-output polls in a row, up to now, that
                              \* each saw a state other than this.playing
    emitted                   \* every event MoodePlayer has emitted, in order

deviceVars == <<device, deviceRead, inbox>>
playerVars == <<playing, debounce, mediaInfo, successive, emitted>>
outsideVars == <<deviceVars, playerVars>>

facadeVars == <<started, state, volumeChangeTimeout, stateChangeCount,
                readyCount, setterCalls, decoded, lastCall, timers,
                sinceVolumeChange, cecSent, notifications, lastSent>>

vars == <<opened, tickWait, sendBuffer, sending, sinceLastSendCommandEnd,
          sinceLastStart, chains, wire, enqueued, errors,
          started, state, volumeChangeTimeout, stateChangeCount,
          readyCount, setterCalls, decoded, lastCall, timers,
          sinceVolumeChange, cecSent, notifications, lastSent,
          device, deviceRead, inbox,
          playing, debounce, mediaInfo, successive, emitted>>

\* positions of a callback chain: which callback it is waiting for
Stages == {"startTimer", "headerDrain", "frameTimer", "frameDrain"}

\* the values the state can take
TypeOK ==
    /\ opened \in BOOLEAN
    /\ tickWait \in 0..COMMAND_QUEUE_INTERVAL
    /\ sendBuffer \in Seq(Commands)
    /\ sending \in BOOLEAN
    /\ sinceLastSendCommandEnd \in 0..ElapsedCap
    /\ sinceLastStart \in 0..MIN_COMMAND_GAP
    /\ \A i \in 1..Len(chains) :
          /\ chains[i].command \in Commands
          /\ chains[i].stage \in Stages
          /\ chains[i].wait \in 0..MIN_COMMAND_GAP
          /\ chains[i].headerDelay \in BOOLEAN
          /\ chains[i].sinceDrain \in 0..HEADER_DELAY
    /\ \A k \in 1..Len(wire) :
          /\ wire[k].kind \in {"header", "frame"}
          /\ wire[k].failed \in BOOLEAN
    /\ enqueued \in Seq(Commands)
    /\ errors \in 0..MaxErrors

(* ---------------------- strings, as JavaScript has them ---------------- *)
\* A string is the sequence of its UTF-16 code units; a Buffer is the
\* sequence of its bytes.

\* stands for NaN, which charCodeAt returns for an index past the end of the
\* string: a number no code unit and no difference of one with 30 is equal to
NaN == 0 - 1000

\* ToInt32, applied by the operators >>, & and |: NaN becomes 0
ToInt32(n) == IF n = NaN THEN 0 ELSE n

\* variant: the shift is by one more
BitShiftedOneMore(n, k) == (ToInt32(n) \div (2 ^ (k + 1))) % 2

\* (n >> k) & 1
Bit(n, k) == (ToInt32(n) \div (2 ^ k)) % 2

\* a & b and a | b on non-negative integers
RECURSIVE BitAnd(_, _)
BitAnd(a, b) ==
    IF ToInt32(a) = 0 \/ ToInt32(b) = 0 THEN 0
    ELSE (a % 2) * (b % 2) + 2 * BitAnd(a \div 2, b \div 2)

RECURSIVE BitOr(_, _)
BitOr(a, b) ==
    IF ToInt32(a) = 0 THEN ToInt32(b)
    ELSE IF ToInt32(b) = 0 THEN a
    ELSE (IF a % 2 = 1 \/ b % 2 = 1 THEN 1 ELSE 0)
         + 2 * BitOr(a \div 2, b \div 2)

\* str.charCodeAt(i) and str.charAt(i), i counted from 0
CharCodeAt(str, i) == IF i < Len(str) THEN str[i + 1] ELSE NaN
CharAt(str, i) == IF i < Len(str) THEN <<str[i + 1]>> ELSE <<>>

\* str.substr(from) and str.substr(0, n)
SubstrFrom(str, from) == SubSeq(str, from + 1, Len(str))
SubstrTo(str, n) == SubSeq(str, 1, Min(n, Len(str)))

\* the code units String.prototype.trimEnd removes: WhiteSpace and
\* LineTerminator of ECMAScript
WhiteSpace ==
    {9, 10, 11, 12, 13, 32, 160, 5760, 8232, 8233, 8239, 8287, 12288, 65279}
        \cup (8192..8202)

RECURSIVE TrimEnd(_)
TrimEnd(str) ==
    IF Len(str) > 0 /\ str[Len(str)] \in WhiteSpace
    THEN TrimEnd(SubSeq(str, 1, Len(str) - 1))
    ELSE str

\* chunk.toString(): the bytes decoded as UTF-8.  A byte below 128 is its own
\* character; a well-formed sequence of 2 to 4 bytes is one code point (two
\* code units above 0xFFFF); anything else becomes U+FFFD, one for each
\* longest ill-formed run that is the start of a sequence.
REPLACEMENT_CHARACTER == 65533

\* continuation bytes that follow a lead byte (0: none, NaN: not a lead byte)
Utf8Need(lead) ==
    IF lead < 128 THEN 0
    ELSE IF lead \in 194..223 THEN 1
    ELSE IF lead \in 224..239 THEN 2
    ELSE IF lead \in 240..244 THEN 3
    ELSE NaN

\* byte j (2, 3 or 4) of the sequence starting bytes is an allowed continuation
Utf8ContOK(bytes, j) ==
    /\ j <= Len(bytes)
    /\ IF j = 2
       THEN /\ bytes[2] >= (IF bytes[1] = 224 THEN 160
                            ELSE IF bytes[1] = 240 THEN 144 ELSE 128)
            /\ bytes[2] <= (IF bytes[1] = 237 THEN 159
                            ELSE IF bytes[1] = 244 THEN 143 ELSE 191)
       ELSE bytes[j] \in 128..191

\* how many of the continuation bytes the lead byte needs are there
Utf8Have(bytes) ==
    LET need == Utf8Need(bytes[1])
    IN  IF need >= 1 /\ Utf8ContOK(bytes, 2)
        THEN IF need >= 2 /\ Utf8ContOK(bytes, 3)
             THEN IF need >= 3 /\ Utf8ContOK(bytes, 4) THEN 3 ELSE 2
             ELSE 1
        ELSE 0

\* the code point of a well-formed sequence
Utf8CodePoint(bytes, need) ==
    IF need = 1 THEN (bytes[1] - 192) * 64 + (bytes[2] - 128)
    ELSE IF need = 2
    THEN (bytes[1] - 224) * 4096 + (bytes[2] - 128) * 64 + (bytes[3] - 128)
    ELSE (bytes[1] - 240) * 262144 + (bytes[2] - 128) * 4096
         + (bytes[3] - 128) * 64 + (bytes[4] - 128)

\* the UTF-16 code units of a code point
CodeUnits(cp) ==
    IF cp < 65536 THEN <<cp>>
    ELSE <<55296 + ((cp - 65536) \div 1024), 56320 + ((cp - 65536) % 1024)>>

RECURSIVE Utf8ToString(_)
Utf8ToString(chunk) ==
    IF Len(chunk) = 0 THEN <<>>
    ELSE LET need == Utf8Need(chunk[1])
             have == Utf8Have(chunk)
         IN  IF need = 0
             THEN <<chunk[1]>> \o Utf8ToString(SubSeq(chunk, 2, Len(chunk)))
             ELSE IF need /= NaN /\ have = need
             THEN CodeUnits(Utf8CodePoint(chunk, need))
                  \o Utf8ToString(SubSeq(chunk, need + 2, Len(chunk)))
             ELSE <<REPLACEMENT_CHARACTER>>
                  \o Utf8ToString(SubSeq(chunk, have + 2, Len(chunk)))

(* -------------------------- facade constants -------------------------- *)

\* the command strings the facade sends
NaimAV2Commands ==
    [ON |-> <<33>>, STANDBY |-> <<34>>,
     MUTE_ON |-> <<36>>, MUTE_OFF |-> <<37>>,
     DISPLAY_ON |-> <<38>>, DISPLAY_OFF |-> <<39>>,
     MIDNIGHT_ON |-> <<40>>, MIDNIGHT_OFF |-> <<41>>,
     BASS_MIX_ON |-> <<42>>, BASS_MIX_OFF |-> <<43>>,
     CINE_EQ_ON |-> <<44>>, CINE_EQ_OFF |-> <<45>>,
     INPUT_AN1 |-> <<47>>, INPUT_AN2 |-> <<48>>, INPUT_AN3 |-> <<49>>,
     INPUT_AN4 |-> <<50>>, INPUT_AN5 |-> <<51>>, INPUT_AN6 |-> <<52>>,
     INPUT_OP1 |-> <<53>>, INPUT_OP2 |-> <<54>>,
     INPUT_CO1 |-> <<55>>, INPUT_CO2 |-> <<56>>,
     VERBOSE_ON |-> <<103>>, VERBOSE_OFF |-> <<104>>,
     STATUS_QUERY |-> <<105>>, INPUT_MENU_QUERY |-> <<106>>,
     SPEAKER_MENU_QUERY |-> <<107>>, SOFTWARE_VERSION_QUERY |-> <<108>>,
     FIRMWARE_VERSION_QUERY |-> <<109>>,
     ENTER_INPUT_MENU |-> <<110>>, EXIT_INPUT_MENU |-> <<111>>,
     ENTER_SPEAKER_MENU |-> <<112>>, EXIT_SPEAKER_MENU |-> <<113>>,
     SET_UNITS_FEET |-> <<114>>, SET_UNITS_METRES |-> <<115>>,
     EXTRA_STATUS_QUERY |-> <<144>>,
     VOLUME |-> <<35>>]

\* the first character of each response the device sends
NaimAV2Responses ==
    [SYSTEM_STATUS |-> <<105>>, INPUT_MENU_STATUS |-> <<106>>,
     SPEAKER_MENU_STATUS |-> <<107>>, SOFTWARE_VERSION |-> <<108>>,
     FIRMWARE_VERSION |-> <<109>>, EXTRA_STATUS |-> <<144>>]

NaimAV2StartupState ==
    [NONE |-> 0, GOT_SYSTEM |-> 1, GOT_INPUT |-> 2, GOT_SPEAKER |-> 4,
     GOT_SOFTWARE |-> 8, GOT_FIRMWARE |-> 16, GOT_EXTRA |-> 32, READY |-> 64]

\* '#AV2 ', which every response starts with
RESPONSE_HEADER == <<35>>
responseHeader == RESPONSE_HEADER \o MESSAGE_DEVICE_ID \o MESSAGE_SPACE

\* String.fromCharCode(n): the one code unit n modulo 2^16 (NaN gives 0)
FromCharCode(n) == <<ToInt32(n) % 65536>>

NaimAV2CurrentInput ==
    {"VIP1", "VIP2", "AN3", "AN4", "AN5", "AN6", "OP1", "OP2", "CO1", "CO2",
     "Multi", "Future"}

\* the state the facade is constructed with
InitialState ==
    [system |->
        [power |-> FALSE, inputMenu |-> FALSE, speakerMenu |-> FALSE,
         display |-> FALSE, dolbyDigital |-> FALSE, dolbyPLII |-> FALSE,
         dts |-> FALSE, stereo |-> FALSE, midnightMode |-> FALSE,
         bassMix |-> FALSE, cineEq |-> FALSE, verbose |-> FALSE,
         mute |-> FALSE, volume |-> 0, currentInput |-> "OP1",
         currentDecodeMode |-> "Stereo"],
     input |->
        [vip1InputLabel |-> "---", vip2InputLabel |-> "---",
         an3InputLabel |-> "---", an4InputLabel |-> "---",
         an5InputLabel |-> "---", an6InputLabel |-> "---",
         co1InputLabel |-> "---", co2InputLabel |-> "---",
         op1InputLabel |-> "---", op2InputLabel |-> "---",
         panorama |-> FALSE, panoramaWidth |-> 0, panoramaDepth |-> 0],
     speaker |->
        [speakerSizeMain |-> "Large", speakerSizeCentre |-> "Large",
         speakerSizeSurround |-> "Large", speakerSizeRear |-> "Large",
         subwoofer |-> FALSE, units |-> "Metres",
         speakerDistanceLeft |-> 0, speakerDistanceCentre |-> 0,
         speakerDistanceRight |-> 0, speakerDistanceRightSurround |-> 0,
         speakerDistanceRightRear |-> 0, speakerDistanceLeftRear |-> 0,
         speakerDistanceLeftSurround |-> 0, speakerDistanceSubwoofer |-> 0,
         speakerLevelLeft |-> 0, speakerLevelCentre |-> 0,
         speakerLevelRight |-> 0, speakerLevelRightSurround |-> 0,
         speakerLevelRightRear |-> 0, speakerLevelLeftRear |-> 0,
         speakerLevelLeftSurround |-> 0, speakerLevelSubwoofer |-> 0],
     \* a version string is kept as the numbers between its dots: '' is <<>>
     software |-> [softwareVersion |-> <<>>],
     firmware |-> [firmwareVersion |-> <<>>],
     extra |-> <<>>]

(* ------------------------- decoding a response ------------------------ *)

\* the preset labels, by their code 1..20
PresetLabels ==
    <<"DVD", "LASER", "TV", "SAT", "CABLE", "HDR", "VCR", "GAME", "PC",
      "PREAMP", "CD", "CDR", "TUNER", "DAB", "MD", "DAT", "TAPE", "AUX",
      "DVDA", "SACD">>

\* the labels that are the standard name of some input
StandardLabels ==
    {"AN1", "AN2", "AN3", "AN4", "AN5", "AN6", "OP1", "OP2", "CO1", "CO2"}

NaimAV2InputLabel ==
    StandardLabels \cup {PresetLabels[k] : k \in 1..Len(PresetLabels)}
        \cup {"---"}

\* the value null
null == 0 - 1

\* variant: the code 0 is taken for an unknown one
getInputLabelWithoutStandard(byte, standardLabel) ==
    IF byte \in 1..Len(PresetLabels) THEN PresetLabels[byte]
    ELSE "---"

getInputLabelForByte(byte, standardLabel) ==
    IF byte = 0 THEN standardLabel
    ELSE IF byte \in 1..Len(PresetLabels) THEN PresetLabels[byte]
    ELSE "---"

getByteForInputLabel(label) ==
    IF label \in StandardLabels THEN 0
    ELSE IF \E k \in 1..Len(PresetLabels) : PresetLabels[k] = label
    THEN CHOOSE k \in 1..Len(PresetLabels) : PresetLabels[k] = label
    ELSE IF label = "---" THEN 23
    ELSE null

getSpeakerSizeForByte(byte) ==
    IF byte = 1 THEN "Small"
    ELSE IF byte = 2 THEN "Large"
    ELSE IF byte = 3 THEN "2 Small"
    ELSE IF byte = 4 THEN "2 Large"
    ELSE "Off"

\* variant: the codes of the inputs count from 0
CurrentInputFromZero(n) ==
    IF n \in 0..10
    THEN <<"VIP1", "VIP2", "AN3", "AN4", "AN5", "AN6", "OP1", "OP2", "CO1",
           "CO2", "Multi">>[n + 1]
    ELSE "Future"

\* the switch over (charCodeAt(2) & 15)
CurrentInputForNibble(n) ==
    IF n \in 1..11
    THEN <<"VIP1", "VIP2", "AN3", "AN4", "AN5", "AN6", "OP1", "OP2", "CO1",
           "CO2", "Multi">>[n]
    ELSE "Future"

\* the switch over charCodeAt(5)
CurrentDecodeModeForByte(byte) ==
    IF byte \in 0..23
    THEN <<"Direct", "Mono", "Stereo", "PLII Music", "PLII Movie",
           "Neo:6 Cinema", "Neo:6 Music", "Neo:6", "DTS", "DTS ES-Matrix",
           "DTS ES-Discrete", "Dolby Digital", "Dolby Digital EX",
           "No signal", "Multi", "---", "1/1", "1/0", "2/0", "3/0", "2/1",
           "3/1", "2/2", "3/2">>[byte + 1]
    ELSE IF byte \in 48..55
    THEN <<"1/1.1", "1/0.1", "2/0.1", "3/0.1", "2/1.1", "3/1.1", "2/2.1",
           "3/2.1">>[byte - 47]
    ELSE "Future"

\* !!n for a number n: false for 0 and NaN
Truthy(n) == n /= 0 /\ n /= NaN

\* variant: the difference is kept within -30..30
MinusClamped(n, k) ==
    IF n = NaN THEN NaN ELSE Max(0 - 30, Min(30, n - k))

\* n - k for a number n
Minus(n, k) == IF n = NaN THEN NaN ELSE n - k

\* the record case SYSTEM_STATUS assigns to this.state.system
SystemOf(command) ==
    [power |-> Bit(CharCodeAt(command, 1), 7) = 1,
     inputMenu |-> Bit(CharCodeAt(command, 1), 6) = 1,
     speakerMenu |-> Bit(CharCodeAt(command, 1), 5) = 1,
     display |-> Bit(CharCodeAt(command, 1), 4) = 1,
     dolbyDigital |-> Bit(CharCodeAt(command, 1), 3) = 1,
     dolbyPLII |-> Bit(CharCodeAt(command, 1), 2) = 1,
     dts |-> Bit(CharCodeAt(command, 1), 1) = 1,
     stereo |-> Bit(CharCodeAt(command, 1), 0) = 1,
     midnightMode |-> Bit(CharCodeAt(command, 2), 7) = 1,
     bassMix |-> Bit(CharCodeAt(command, 2), 6) = 1,
     cineEq |-> Bit(CharCodeAt(command, 2), 5) = 1,
     verbose |-> Bit(CharCodeAt(command, 2), 4) = 1,
     mute |-> Bit(CharCodeAt(command, 3), 7) = 1,
     volume |-> BitAnd(CharCodeAt(command, 3), 127),
     currentInput |->
         CurrentInputForNibble(BitAnd(CharCodeAt(command, 2), 15)),
     currentDecodeMode |-> CurrentDecodeModeForByte(CharCodeAt(command, 5))]

\* the record case INPUT_MENU_STATUS assigns to this.state.input
InputOf(command) ==
    [vip1InputLabel |-> getInputLabelForByte(CharCodeAt(command, 1), "AN1"),
     vip2InputLabel |-> getInputLabelForByte(CharCodeAt(command, 2), "AN2"),
     an3InputLabel |-> getInputLabelForByte(CharCodeAt(command, 3), "AN3"),
     an4InputLabel |-> getInputLabelForByte(CharCodeAt(command, 4), "AN4"),
     an5InputLabel |-> getInputLabelForByte(CharCodeAt(command, 5), "AN5"),
     an6InputLabel |-> getInputLabelForByte(CharCodeAt(command, 6), "AN6"),
     co1InputLabel |-> getInputLabelForByte(CharCodeAt(command, 7), "CO1"),
     co2InputLabel |-> getInputLabelForByte(CharCodeAt(command, 8), "CO2"),
     op1InputLabel |-> getInputLabelForByte(CharCodeAt(command, 9), "OP1"),
     op2InputLabel |-> getInputLabelForByte(CharCodeAt(command, 10), "OP2"),
     panorama |-> Truthy(CharCodeAt(command, 11)),
     panoramaWidth |-> CharCodeAt(command, 12),
     panoramaDepth |-> CharCodeAt(command, 13)]

\* the record case SPEAKER_MENU_STATUS assigns to this.state.speaker
SpeakerOf(command) ==
    [speakerSizeMain |-> getSpeakerSizeForByte(CharCodeAt(command, 1)),
     speakerSizeCentre |-> getSpeakerSizeForByte(CharCodeAt(command, 2)),
     speakerSizeSurround |-> getSpeakerSizeForByte(CharCodeAt(command, 3)),
     speakerSizeRear |-> getSpeakerSizeForByte(CharCodeAt(command, 4)),
     subwoofer |-> Truthy(CharCodeAt(command, 5)),
     units |-> IF Truthy(CharCodeAt(command, 6)) THEN "Feet" ELSE "Metres",
     speakerDistanceLeft |-> CharCodeAt(command, 7),
     speakerDistanceCentre |-> CharCodeAt(command, 8),
     speakerDistanceRight |-> CharCodeAt(command, 9),
     speakerDistanceRightSurround |-> CharCodeAt(command, 10),
     speakerDistanceRightRear |-> CharCodeAt(command, 11),
     speakerDistanceLeftRear |-> CharCodeAt(command, 12),
     speakerDistanceLeftSurround |-> CharCodeAt(command, 13),
     speakerDistanceSubwoofer |-> CharCodeAt(command, 14),
     speakerLevelLeft |-> Minus(CharCodeAt(command, 15), 30),
     speakerLevelCentre |-> Minus(CharCodeAt(command, 16), 30),
     speakerLevelRight |-> Minus(CharCodeAt(command, 17), 30),
     speakerLevelRightSurround |-> Minus(CharCodeAt(command, 18), 30),
     speakerLevelRightRear |-> Minus(CharCodeAt(command, 19), 30),
     speakerLevelLeftRear |-> Minus(CharCodeAt(command, 20), 30),
     speakerLevelLeftSurround |-> Minus(CharCodeAt(command, 21), 30),
     speakerLevelSubwoofer |-> Minus(CharCodeAt(command, 22), 30)]

\* the strings cases SOFTWARE_VERSION and FIRMWARE_VERSION build
SoftwareVersionOf(command) ==
    <<CharCodeAt(command, 1), CharCodeAt(command, 2)>>
FirmwareVersionOf(command) ==
    <<CharCodeAt(command, 1), CharCodeAt(command, 2), CharCodeAt(command, 3)>>

\* variant: a switch that also has a case for every other first character
CaseOfWithDefault(commandCode) ==
    IF commandCode = NaimAV2Responses.INPUT_MENU_STATUS THEN "INPUT_MENU_STATUS"
    ELSE IF commandCode = NaimAV2Responses.SPEAKER_MENU_STATUS
    THEN "SPEAKER_MENU_STATUS"
    ELSE IF commandCode = NaimAV2Responses.SOFTWARE_VERSION THEN "SOFTWARE_VERSION"
    ELSE IF commandCode = NaimAV2Responses.FIRMWARE_VERSION THEN "FIRMWARE_VERSION"
    ELSE "SYSTEM_STATUS"

\* the case of the switch (commandCode) that runs; "none" when no case
\* label equals commandCode (the switch has five cases and no default)
CaseOf(commandCode) ==
    IF commandCode = NaimAV2Responses.SYSTEM_STATUS THEN "SYSTEM_STATUS"
    ELSE IF commandCode = NaimAV2Responses.INPUT_MENU_STATUS
    THEN "INPUT_MENU_STATUS"
    ELSE IF commandCode = NaimAV2Responses.SPEAKER_MENU_STATUS
    THEN "SPEAKER_MENU_STATUS"
    ELSE IF commandCode = NaimAV2Responses.SOFTWARE_VERSION THEN "SOFTWARE_VERSION"
    ELSE IF commandCode = NaimAV2Responses.FIRMWARE_VERSION THEN "FIRMWARE_VERSION"
    ELSE "none"

\* variant: case SYSTEM_STATUS merges into the record it finds, keeping the
\* volume that is there
StateAfterCaseMerging(st, case, command) ==
    IF case = "SYSTEM_STATUS"
    THEN [st EXCEPT !.system = [SystemOf(command) EXCEPT
                                   !.volume = st.system.volume]]
    ELSE IF case = "INPUT_MENU_STATUS"
    THEN [st EXCEPT !.input = InputOf(command)]
    ELSE IF case = "SPEAKER_MENU_STATUS"
    THEN [st EXCEPT !.speaker = SpeakerOf(command)]
    ELSE IF case = "SOFTWARE_VERSION"
    THEN [st EXCEPT !.software.softwareVersion = SoftwareVersionOf(command)]
    ELSE IF case = "FIRMWARE_VERSION"
    THEN [st EXCEPT !.firmware.firmwareVersion = FirmwareVersionOf(command)]
    ELSE st

\* this.state after the case has run
StateAfterCase(st, case, command) ==
    IF case = "SYSTEM_STATUS" THEN [st EXCEPT !.system = SystemOf(command)]
    ELSE IF case = "INPUT_MENU_STATUS"
    THEN [st EXCEPT !.input = InputOf(command)]
    ELSE IF case = "SPEAKER_MENU_STATUS"
    THEN [st EXCEPT !.speaker = SpeakerOf(command)]
    ELSE IF case = "SOFTWARE_VERSION"
    THEN [st EXCEPT !.software.softwareVersion = SoftwareVersionOf(command)]
    ELSE IF case = "FIRMWARE_VERSION"
    THEN [st EXCEPT !.firmware.firmwareVersion = FirmwareVersionOf(command)]
    ELSE st

\* the flag the case ORs into this.started
FlagOfCase(case) ==
    IF case = "SYSTEM_STATUS" THEN NaimAV2StartupState.GOT_SYSTEM
    ELSE IF case = "INPUT_MENU_STATUS" THEN NaimAV2StartupState.GOT_INPUT
    ELSE IF case = "SPEAKER_MENU_STATUS" THEN NaimAV2StartupState.GOT_SPEAKER
    ELSE IF case = "SOFTWARE_VERSION" THEN NaimAV2StartupState.GOT_SOFTWARE
    ELSE IF case = "FIRMWARE_VERSION" THEN NaimAV2StartupState.GOT_FIRMWARE
    ELSE NaimAV2StartupState.NONE

\* the constant the 'stateChange' listener compares this.started with
allStarted ==
    BitOr(NaimAV2StartupState.GOT_SYSTEM,
    BitOr(NaimAV2StartupState.GOT_INPUT,
    BitOr(NaimAV2StartupState.GOT_SPEAKER,
    BitOr(NaimAV2StartupState.GOT_SOFTWARE,
          NaimAV2StartupState.GOT_FIRMWARE))))

\* variant: the listener does not wait for the firmware version
ReadyDueWithoutFirmware(s) ==
    /\ s >= allStarted - NaimAV2StartupState.GOT_FIRMWARE
    /\ s /= NaimAV2StartupState.READY

\* the condition under which the 'stateChange' listener raises 'ready'
ReadyDue(s) == s >= allStarted /\ s /= NaimAV2StartupState.READY

\* the values the facade's state can take
FacadeTypeOK ==
    /\ started \in 0..127
    /\ DOMAIN state =
          {"system", "input", "speaker", "software", "firmware", "extra"}
    /\ state.system.power \in BOOLEAN
    /\ state.system.volume \in Nat
    /\ state.system.currentInput \in NaimAV2CurrentInput
    /\ state.input.an3InputLabel \in NaimAV2InputLabel
    /\ state.speaker.units \in {"Feet", "Metres"}
    /\ volumeChangeTimeout \in Nat
    /\ stateChangeCount \in Nat
    /\ readyCount \in 0..stateChangeCount
    /\ setterCalls \in Nat
    /\ decoded \subseteq {"SYSTEM_STATUS", "INPUT_MENU_STATUS",
                          "SPEAKER_MENU_STATUS", "SOFTWARE_VERSION",
                          "FIRMWARE_VERSION"}
    /\ lastCall.op \in STRING
    /\ \A timer \in timers :
          timer.handle \in 1..volumeChangeTimeout /\ timer.wait \in Nat
    /\ sinceVolumeChange \in Nat
    /\ \A k \in 1..Len(cecSent) : cecSent[k].status \in 0..255
    /\ Len(notifications) <= stateChangeCount

\* the facade after construction
FacadeInit ==
    /\ started = NaimAV2StartupState.NONE
    /\ state = InitialState
    /\ volumeChangeTimeout = 0
    /\ timers = {}
    /\ sinceVolumeChange = 0
    /\ cecSent = <<>>
    /\ notifications = <<>>
    /\ lastSent = <<>>
    /\ stateChangeCount = 0
    /\ readyCount = 0
    /\ setterCalls = 0
    /\ decoded = {}
    /\ lastCall = [op |-> "new", flag |-> FALSE, num |-> 0, input |-> "",
                   label |-> "", bytes |-> <<>>]

\* the amplifier as it is found, and MoodePlayer after construction
OutsideInit ==
    /\ device = [power |-> TRUE, mute |-> FALSE, volume |-> 50,
                 currentInput |-> "AN3"]
    /\ deviceRead = 0
    /\ inbox = <<>>
    /\ playing = <<>>
    /\ debounce = 0
    /\ mediaInfo = <<>>
    /\ successive = 0
    /\ emitted = <<>>

Init ==
    /\ FacadeInit
    /\ opened = FALSE
    /\ tickWait = 0
    /\ sendBuffer = <<>>
    /\ sending = FALSE
    \* lastSendCommandEndTime = 0 and Date.now() is the epoch time
    /\ sinceLastSendCommandEnd = ElapsedCap
    \* nothing has been written yet
    /\ sinceLastStart = MIN_COMMAND_GAP
    /\ chains = <<>>
    /\ wire = <<>>
    /\ enqueued = <<>>
    /\ errors = 0
    /\ OutsideInit

(* ------------------------------ channel ------------------------------- *)

\* serial.write(bytes): the call is recorded; a failing write raises the
\* port's 'error' event, whose handler only logs
SerialWrite(kind, bytes, failed) ==
    /\ failed => errors < MaxErrors
    /\ wire' = Append(wire, [kind |-> kind, bytes |-> bytes, failed |-> failed])
    /\ errors' = IF failed THEN errors + 1 ELSE errors

(* ------------------------------ actions ------------------------------- *)

\* the serial port's 'open' handler: start the queue interval.  The handler
\* also emits 'ready'; what its listeners queue arrives here as SendCommand.
PortOpen ==
    /\ ~opened
    /\ opened' = TRUE
    /\ tickWait' = COMMAND_QUEUE_INTERVAL
    /\ UNCHANGED <<sendBuffer, sending, sinceLastSendCommandEnd, sinceLastStart,
                   chains, wire, enqueued, errors>>
    /\ UNCHANGED <<facadeVars, outsideVars>>

\* sendCommand(command)
SendCommand(command) ==
    /\ Len(enqueued) < MaxCmds
    /\ sendBuffer' = Push(sendBuffer, command)
    /\ enqueued' = Append(enqueued, command)
    /\ UNCHANGED <<opened, tickWait, sending, sinceLastSendCommandEnd,
                   sinceLastStart, chains, wire, errors>>
    /\ UNCHANGED <<facadeVars, outsideVars>>

\* one interval tick: processCommandQueue() up to its first setTimeout
ProcessCommandQueue ==
    /\ opened
    /\ tickWait = 0
    /\ tickWait' = COMMAND_QUEUE_INTERVAL
    /\ IF TickIsNoOp(sending, sendBuffer)
       THEN UNCHANGED <<sendBuffer, sending, chains>>
       ELSE LET command == ShiftHead(sendBuffer)
                timeSinceLast == sinceLastSendCommandEnd
            IN /\ sending' = TRUE
               /\ sendBuffer' = ShiftRest(sendBuffer)
               /\ chains' = Append(chains,
                      [command |-> command,
                       stage |-> "startTimer",
                       wait |-> StartDelayMs(timeSinceLast),
                       headerDelay |-> HeaderDelay(timeSinceLast),
                       sinceDrain |-> 0])
    /\ UNCHANGED <<opened, sinceLastSendCommandEnd, sinceLastStart, wire,
                   enqueued, errors>>
    /\ UNCHANGED <<facadeVars, outsideVars>>

\* variant: the two writes collapsed into one write of the complete frame
StartTimerFiredWholeFrame(i) ==
    /\ chains[i].stage = "startTimer"
    /\ chains[i].wait = 0
    /\ \E failed \in BOOLEAN :
          SerialWrite("frame", FrameBytes(chains[i].command), failed)
    /\ sinceLastStart' = 0
    /\ chains' = [chains EXCEPT ![i].stage = "frameDrain"]
    /\ UNCHANGED <<opened, tickWait, sendBuffer, sending,
                   sinceLastSendCommandEnd, enqueued>>
    /\ UNCHANGED <<facadeVars, outsideVars>>

\* the outer setTimeout callback: write the lone header byte, ask for drain
StartTimerFired(i) ==
    /\ chains[i].stage = "startTimer"
    /\ chains[i].wait = 0
    /\ \E failed \in BOOLEAN : SerialWrite("header", HeaderBytes, failed)
    /\ sinceLastStart' = 0
    /\ chains' = [chains EXCEPT ![i].stage = "headerDrain"]
    /\ UNCHANGED <<opened, tickWait, sendBuffer, sending,
                   sinceLastSendCommandEnd, enqueued>>
    /\ UNCHANGED <<facadeVars, outsideVars>>

\* the first drain callback (its error argument is not looked at):
\* start the inner setTimeout
HeaderDrained(i) ==
    /\ chains[i].stage = "headerDrain"
    /\ \E err \in BOOLEAN :
          /\ err => errors < MaxErrors
          /\ errors' = IF err THEN errors + 1 ELSE errors
    /\ chains' = [chains EXCEPT ![i].stage = "frameTimer",
                                ![i].wait = FrameDelayMs(chains[i].headerDelay),
                                ![i].sinceDrain = 0]
    /\ UNCHANGED <<opened, tickWait, sendBuffer, sending,
                   sinceLastSendCommandEnd, sinceLastStart, wire, enqueued>>
    /\ UNCHANGED <<facadeVars, outsideVars>>

\* variant: the transmitter is marked free at the frame write, before its drain
FrameTimerFiredFreesEarly(i) ==
    /\ chains[i].stage = "frameTimer"
    /\ chains[i].wait = 0
    /\ \E failed \in BOOLEAN :
          SerialWrite("frame", FrameBytes(chains[i].command), failed)
    /\ sending' = FALSE
    /\ chains' = [chains EXCEPT ![i].stage = "frameDrain"]
    /\ UNCHANGED <<opened, tickWait, sendBuffer,
                   sinceLastSendCommandEnd, sinceLastStart, enqueued>>
    /\ UNCHANGED <<facadeVars, outsideVars>>

\* the inner setTimeout callback: write the complete frame, ask for drain
FrameTimerFired(i) ==
    /\ chains[i].stage = "frameTimer"
    /\ chains[i].wait = 0
    /\ \E failed \in BOOLEAN :
          SerialWrite("frame", FrameBytes(chains[i].command), failed)
    /\ chains' = [chains EXCEPT ![i].stage = "frameDrain"]
    /\ UNCHANGED <<opened, tickWait, sendBuffer, sending,
                   sinceLastSendCommandEnd, sinceLastStart, enqueued>>
    /\ UNCHANGED <<facadeVars, outsideVars>>

\* variant: the end time is recorded but the busy flag is left set
FrameDrainedStaysBusy(i) ==
    /\ chains[i].stage = "frameDrain"
    /\ \E err \in BOOLEAN :
          /\ err => errors < MaxErrors
          /\ errors' = IF err THEN errors + 1 ELSE errors
    /\ sinceLastSendCommandEnd' = 0
    /\ chains' = RemoveAt(chains, i)
    /\ UNCHANGED <<opened, tickWait, sendBuffer, sending, sinceLastStart, wire,
                   enqueued>>
    /\ UNCHANGED <<facadeVars, outsideVars>>

\* variant: the callback returns at once when the drain reports an error
FrameDrainedStopsOnError(i) ==
    /\ chains[i].stage = "frameDrain"
    /\ \E err \in BOOLEAN :
          /\ err => errors < MaxErrors
          /\ errors' = IF err THEN errors + 1 ELSE errors
          /\ sinceLastSendCommandEnd' = IF err THEN sinceLastSendCommandEnd ELSE 0
          /\ sending' = IF err THEN sending ELSE FALSE
    /\ chains' = RemoveAt(chains, i)
    /\ UNCHANGED <<opened, tickWait, sendBuffer, sinceLastStart, wire, enqueued>>
    /\ UNCHANGED <<facadeVars, outsideVars>>

\* the second drain callback (its error argument is not looked at):
\* lastSendCommandEndTime = Date.now(); sending = false
FrameDrained(i) ==
    /\ chains[i].stage = "frameDrain"
    /\ \E err \in BOOLEAN :
          /\ err => errors < MaxErrors
          /\ errors' = IF err THEN errors + 1 ELSE errors
    /\ sinceLastSendCommandEnd' = 0
    /\ sending' = FALSE
    /\ chains' = RemoveAt(chains, i)
    /\ UNCHANGED <<opened, tickWait, sendBuffer, sinceLastStart, wire, enqueued>>
    /\ UNCHANGED <<facadeVars, outsideVars>>

\* d ms pass: clocks count up, pending timers count down
Advance(d) ==
    /\ sinceLastSendCommandEnd' = Min(sinceLastSendCommandEnd + d, ElapsedCap)
    /\ sinceLastStart' = Min(sinceLastStart + d, MIN_COMMAND_GAP)
    /\ tickWait' = IF opened THEN Max(tickWait - d, 0) ELSE tickWait
    /\ chains' = [i \in 1..Len(chains) |->
                    [chains[i] EXCEPT
                        !.wait = Max(@ - d, 0),
                        !.sinceDrain = IF chains[i].stage = "frameTimer"
                                       THEN Min(@ + d, HEADER_DELAY) ELSE @]]
    /\ UNCHANGED <<opened, sendBuffer, sending, wire, enqueued, errors>>
    /\ UNCHANGED <<facadeVars, outsideVars>>

Next ==
    \/ PortOpen
    \/ \E command \in Commands : SendCommand(command)
    \/ ProcessCommandQueue
    \/ \E i \in 1..Len(chains) : StartTimerFired(i)
    \/ \E i \in 1..Len(chains) : HeaderDrained(i)
    \/ \E i \in 1..Len(chains) : FrameTimerFired(i)
    \/ \E i \in 1..Len(chains) : FrameDrained(i)
    \/ \E d \in TimeSteps : Advance(d)

Spec == Init /\ [][Next]_vars

\* The scheduling the engine relies on: time passes, the interval timer and
\* the setTimeout timers fire once due, and every drain calls back.
FairSpec ==
    /\ Spec
    /\ WF_vars(\E d \in TimeSteps : Advance(d))
    /\ WF_vars(ProcessCommandQueue)
    /\ WF_vars(\E i \in 1..Len(chains) : StartTimerFired(i))
    /\ WF_vars(\E i \in 1..Len(chains) : HeaderDrained(i))
    /\ WF_vars(\E i \in 1..Len(chains) : FrameTimerFired(i))
    /\ WF_vars(\E i \in 1..Len(chains) : FrameDrained(i))

(* ------------------------ steps, as seen from outside ------------------ *)

\* a serial.write call of the given kind happens in this step
WriteStep(kind) ==
    /\ Len(wire') = Len(wire) + 1
    /\ wire'[Len(wire')].kind = kind

\* a tick dequeues an entry and starts its callback chain in this step
DequeueStep == Len(chains') = Len(chains) + 1

\* chain i moves from one position to another in this step
StageStep(i, from, to) ==
    /\ Len(chains') = Len(chains)
    /\ chains[i].stage = from
    /\ chains'[i].stage = to

\* the drain of some chain's complete frame calls back in this step
FrameDrainStep ==
    /\ Len(chains') = Len(chains) - 1
    /\ \E i \in 1..Len(chains) :
          chains[i].stage = "frameDrain" /\ chains' = RemoveAt(chains, i)

\* the interval timer fires in this step
TickStep == opened /\ tickWait = 0 /\ tickWait' = COMMAND_QUEUE_INTERVAL

\* sendCommand is called in this step
EnqueueStep == Len(enqueued') = Len(enqueued) + 1

\* the complete-frame writes so far, and the payload carried by a frame
FramesWritten == SelectSeq(wire, LAMBDA w : w.kind = "frame")
PayloadOfFrame(bytes) == SubSeq(bytes, 6, Len(bytes) - 1)
WrittenPayloads ==
    [k \in 1..Len(FramesWritten) |-> PayloadOfFrame(FramesWritten[k].bytes)]

\* the commands dequeued whose complete frame is not written yet
PendingCommands ==
    LET P == SelectSeq(chains, LAMBDA c : c.stage # "frameDrain")
    IN [k \in 1..Len(P) |-> P[k].command]

(* ------------------------------- claims ------------------------------- *)

\* C1 Single flight: in every reachable state at most one command is between
\* its dequeue and the completed drain of its complete frame, and the busy
\* flag is set exactly while there is one.
C1_SingleFlight ==
    /\ Len(chains) <= 1
    /\ sending <=> (Len(chains) = 1)

\* a tick has fired during a send that had to wait the 25 ms wake delay,
\* while another command was queued, and did not start a second chain
C1_Witness ==
    /\ Len(chains) = 1
    /\ chains[1].stage = "frameDrain"
    /\ chains[1].headerDelay
    /\ Len(sendBuffer) >= 1
    /\ tickWait = COMMAND_QUEUE_INTERVAL

\* C2 FIFO without dedup: the payloads of the complete frames written so far,
\* followed by the dequeued commands not yet written and by the queue, are
\* exactly the sendCommand arguments so far, in call order, each once.
C2_FifoNoDedup ==
    WrittenPayloads \o PendingCommands \o sendBuffer = enqueued

\* three commands, the first two identical, have all been written
C2_Witness ==
    /\ Len(enqueued) = 3
    /\ enqueued[1] = enqueued[2]
    /\ enqueued[2] # enqueued[3]
    /\ Len(FramesWritten) = 3
    /\ WrittenPayloads = enqueued

\* C3 Minimum gap: a dequeue with less than 105 ms elapsed since the previous
\* completion delays the start by the missing time and a dequeue at 105 ms or
\* more by nothing; every lone header byte is written at least 105 ms after
\* the previous completion and at least 105 ms after the previous header byte.
C3_MinimumGap ==
    [][ /\ DequeueStep =>
              chains'[Len(chains')].wait =
                  IF sinceLastSendCommandEnd >= 105
                  THEN 0 ELSE 105 - sinceLastSendCommandEnd
        /\ WriteStep("header") =>
              /\ sinceLastSendCommandEnd >= 105
              /\ sinceLastStart >= 105 ]_vars

\* the second command's header byte has just been written exactly 105 ms
\* after the first command completed
C3_Witness ==
    /\ Len(wire) = 3
    /\ wire[3].kind = "header"
    /\ sinceLastStart = 0
    /\ sinceLastSendCommandEnd = 105

\* C4 Two-phase write: the writes alternate lone header byte 0x2A, complete
\* frame 0x2A 'A' 'V' '2' 0x20 payload 0xFF of the same command, command after
\* command in queue order; a frame is written only by a chain whose header
\* drain has called back.
C4_TwoPhaseWrite ==
    /\ [](\A k \in 1..Len(wire) :
            IF k % 2 = 1
            THEN wire[k].kind = "header" /\ wire[k].bytes = <<42>>
            ELSE /\ wire[k].kind = "frame"
                 /\ wire[k].bytes =
                        <<42, 65, 86, 50, 32>> \o enqueued[k \div 2] \o <<255>>)
    /\ [][ /\ WriteStep("header") =>
                 \E j \in 1..Len(chains) : StageStep(j, "startTimer", "headerDrain")
           /\ WriteStep("frame") =>
                 \E j \in 1..Len(chains) : StageStep(j, "frameTimer", "frameDrain")
           /\ \A i \in 1..Len(chains) :
                 (Len(chains') = Len(chains) /\ chains'[i].stage = "frameTimer"
                    /\ chains[i].stage # "frameTimer") =>
                 (chains[i].stage = "headerDrain" /\ wire' = wire) ]_vars

\* the two-byte VOLUME command has been sent as the second command
C4_Witness ==
    /\ Len(wire) = 4
    /\ wire[3].bytes = <<42>>
    /\ wire[4].bytes = <<42, 65, 86, 50, 32, 35, 50, 255>>

\* C5 Idle wake delay: the delay inserted between the header byte's drain and
\* the frame write is 25 ms exactly when more than 200 ms had elapsed since
\* the previous completion at the dequeue, and 0 otherwise; the frame is
\* written no earlier than that delay after the drain.
C5_IdleWakeDelay ==
    [][ /\ DequeueStep =>
              chains'[Len(chains')].headerDelay = (sinceLastSendCommandEnd > 200)
        /\ \A i \in 1..Len(chains) :
              /\ StageStep(i, "headerDrain", "frameTimer") =>
                    chains'[i].wait = IF chains[i].headerDelay THEN 25 ELSE 0
              /\ StageStep(i, "frameTimer", "frameDrain") =>
                    chains[i].sinceDrain >=
                        IF chains[i].headerDelay THEN 25 ELSE 0 ]_vars

\* a second command, dequeued exactly 200 ms after the first completed, is
\* about to write its frame with no delay after the header drain
C5_Witness ==
    /\ Len(wire) = 3
    /\ Len(chains) = 1
    /\ chains[1].stage = "frameTimer"
    /\ ~chains[1].headerDelay
    /\ chains[1].wait = 0
    /\ chains[1].sinceDrain = 0
    /\ sinceLastSendCommandEnd = 200

\* C6 Completion point: the busy flag is set while a chain is in progress; it
\* is cleared, and the last-command-end time is set to the current time, at
\* the drain callback of the complete frame and in no other step.
C6_CompletionPoint ==
    /\ [](Len(chains) >= 1 => sending)
    /\ [][ /\ (sending /\ ~sending') => FrameDrainStep
           /\ sinceLastSendCommandEnd' < sinceLastSendCommandEnd => FrameDrainStep
           /\ FrameDrainStep => (sinceLastSendCommandEnd' = 0 /\ ~sending') ]_vars

\* the first send has just completed after time had passed since its dequeue
C6_Witness ==
    /\ Len(wire) = 2
    /\ Len(chains) = 0
    /\ ~sending
    /\ sinceLastSendCommandEnd = 0
    /\ sinceLastStart > 0

\* C7 Tick no-op: a tick during a send or with an empty queue changes neither
\* the queue, the busy flag, the last-command-end time nor the chains and
\* writes nothing; any other tick removes exactly the head entry, sets the
\* busy flag and starts the chain of that entry.
C7_TickNoOp ==
    [][ TickStep =>
          IF sending \/ Len(sendBuffer) = 0
          THEN UNCHANGED <<sendBuffer, sending, sinceLastSendCommandEnd,
                           chains, wire>>
          ELSE /\ sendBuffer' = Tail(sendBuffer)
               /\ sending'
               /\ Len(chains') = Len(chains) + 1
               /\ chains'[Len(chains')].command = Head(sendBuffer)
               /\ chains'[Len(chains')].stage = "startTimer"
               /\ UNCHANGED <<sinceLastSendCommandEnd, wire>> ]_vars

\* a tick has just fired on an empty queue 100 ms after a completed send
C7_Witness ==
    /\ opened
    /\ tickWait = COMMAND_QUEUE_INTERVAL
    /\ Len(sendBuffer) = 0
    /\ ~sending
    /\ Len(wire) = 2
    /\ sinceLastSendCommandEnd = 100

\* C8 Enqueue never rejects: sendCommand can be called in every state and
\* appends its argument at the tail of the queue, leaving the other entries,
\* the busy flag, the last-command-end time and the channel alone.
C8_EnqueueNeverRejects ==
    /\ [](\A c \in Commands : Len(enqueued) < MaxCmds => ENABLED SendCommand(c))
    /\ [][ EnqueueStep =>
             /\ sendBuffer' = Append(sendBuffer, enqueued'[Len(enqueued')])
             /\ UNCHANGED <<opened, tickWait, sending, sinceLastSendCommandEnd,
                            sinceLastStart, chains, wire, errors>> ]_vars

\* two different commands were queued behind a send in progress
C8_Witness ==
    /\ sending
    /\ Len(chains) = 1
    /\ chains[1].stage = "headerDrain"
    /\ Len(sendBuffer) = 2
    /\ sendBuffer[1] # sendBuffer[2]

\* C9 Progress (timers firing, drains calling back): a chain in progress gets
\* its header byte and then its frame written and the transmitter becomes free
\* again; once the port is open, the n-th command queued, whether queued before
\* or after the open, eventually has its complete frame written.
C9_Progress ==
    /\ \A i \in 1..MaxCmds :
          (Len(chains) >= 1 /\ chains[1].stage = "startTimer" /\ Len(wire) = 2 * (i - 1))
             ~> (Len(wire) = 2 * i - 1 /\ wire[2 * i - 1].kind = "header")
    /\ \A i \in 1..MaxCmds :
          (Len(wire) = 2 * i - 1) ~> (Len(wire) = 2 * i /\ wire[2 * i].kind = "frame")
    /\ sending ~> ~sending
    /\ \A n \in 1..MaxCmds :
          (opened /\ Len(enqueued) >= n)
             ~> (Len(FramesWritten) >= n /\ WrittenPayloads[n] = enqueued[n])

\* every command of the behaviour, whenever it was queued, has had its
\* complete frame written, and the transmitter is free again
C9_Witness ==
    /\ opened
    /\ Len(enqueued) = MaxCmds
    /\ WrittenPayloads = enqueued
    /\ Len(chains) = 0
    /\ ~sending
    /\ Len(sendBuffer) = 0

\* C10 Send failure (timers firing, drains calling back): after a failed write
\* or drain no payload is written twice or put back in the queue, the
\* transmitter becomes free again, and every command queued, before or after
\* the failure, still has its complete frame written.
C10_SendFailure ==
    /\ [](errors > 0 =>
            /\ Len(FramesWritten) + Len(PendingCommands) + Len(sendBuffer)
                  = Len(enqueued)
            /\ \A k \in 1..Len(FramesWritten) :
                  PayloadOfFrame(FramesWritten[k].bytes) = enqueued[k])
    /\ (errors > 0 /\ sending) ~> ~sending
    /\ \A n \in 1..MaxCmds :
          (errors > 0 /\ Len(enqueued) >= n) ~> (Len(FramesWritten) >= n)

\* the first command's frame write failed; the second command has since been
\* written successfully and the transmitter is free
C10_Witness ==
    /\ Len(wire) = 4
    /\ wire[2].kind = "frame" /\ wire[2].failed
    /\ wire[4].kind = "frame" /\ ~wire[4].failed
    /\ ~sending
    /\ Len(sendBuffer) = 0

(* ===================================================================== *)
(* The facade: setters, the port's 'ready' listener and the decoding of   *)
(* what the parser delivers.  The transmitter does not run here: every    *)
(* command stays in the queue the setters put it in.                      *)
(* ===================================================================== *)

(* ------------------------------ bounds -------------------------------- *)

\* number of setter calls explored in one behaviour
MaxCalls == 1
\* number of 'stateChange' events explored in one behaviour
MaxStateChanges == 6
\* number of volume setter calls and of status responses explored in one
\* behaviour of the volume timer
MaxVolumeCalls == 2
MaxVolumeFrames == 1
\* the value sinceVolumeChange stops counting at
VolumeClockCap == 1500
\* the amounts of time, in ms, that pass in one step of the volume timer
VolumeTimeSteps == {500, 1000}
\* number of 'stateChange' events a listener added from outside is shown
MaxNotified == 3
\* number of responses decoded while the transmitter runs
MaxDuplexFrames == 1
\* number of commands sent while responses arrive
MaxDuplexCmds == 2
\* number of responses decoded among the frames sent through both framings
MaxRoundTrips == 1
\* number of 'command' events decoded one by one
MaxDecodes == 1
\* number of setter calls where calls are repeated, and of responses decoded
\* before and between them
MaxRepeatCalls == 2
MaxRepeatFrames == 1
\* number of responses decoded while CEC messages arrive
MaxCecFrames == 2
\* responses decoded in the behaviours that explore responses cut short
MaxShortFrames == 2
\* events the media player emits in the behaviours that explore its polls
MaxEvents == 3

\* the delay setVolume passes to setTimeout
SYNC_DELAY == 1000

(* ------------------------------ inputs -------------------------------- *)

\* a chunk the delimiter parser delivers: the bytes '#AV2 ' and a payload
Frame(payload) == AsciiBuffer(responseHeader) \o payload

\* payloads of the five statuses the device reports
SYSTEM_PAYLOAD == <<105, 80, 23, 50, 0, 2>>
SYSTEM_PAYLOAD_LOUD == <<105, 0, 1, 100, 0, 2>>
INPUT_PAYLOAD == <<106, 1, 0, 1, 0, 0, 0, 0, 0, 0, 0, 1, 3, 2>>
SPEAKER_PAYLOAD ==
    <<107, 2, 1, 1, 0, 1, 1, 5, 5, 5, 7, 7, 7, 7, 3, 30, 31, 30, 28, 28, 28,
      28, 35>>
SOFTWARE_PAYLOAD == <<108, 1, 2>>
FIRMWARE_PAYLOAD == <<109, 1, 2, 3>>
\* the extra status: its code as the byte 144, and as the two bytes that are
\* the UTF-8 form of the character with code 144
EXTRA_PAYLOAD == <<144, 0>>
EXTRA_PAYLOAD_UTF8 == <<194, 144, 0>>
\* a payload whose first character is no response code (its second is one)
OTHER_PAYLOAD == <<110, 105>>

ValidChunks ==
    {Frame(SYSTEM_PAYLOAD), Frame(SYSTEM_PAYLOAD_LOUD), Frame(INPUT_PAYLOAD),
     Frame(SPEAKER_PAYLOAD), Frame(SOFTWARE_PAYLOAD), Frame(FIRMWARE_PAYLOAD),
     Frame(EXTRA_PAYLOAD), Frame(EXTRA_PAYLOAD_UTF8), Frame(OTHER_PAYLOAD),
     Frame(<<>>)}

\* chunks that do not start with '#AV2 ': the header of a command before a
\* status payload, a chunk shorter than the header, and a header whose first
\* byte is not a character
InvalidChunks ==
    {AsciiBuffer(MESSAGE_HEADER \o MESSAGE_DEVICE_ID \o MESSAGE_SPACE)
        \o SYSTEM_PAYLOAD,
     <<35, 65, 105>>,
     <<163, 65, 86, 50, 32>> \o FIRMWARE_PAYLOAD}

Chunks == ValidChunks \cup InvalidChunks

\* system statuses that report every volume a byte below 128 can hold, and
\* one that reports volume 5 with mute on (the character with code 133, in
\* its UTF-8 form)
VolumeChunks ==
    {Frame(<<105, 80, 23, volume, 0, 2>>) : volume \in 0..127}
        \cup {Frame(<<105, 80, 23, 194, 133, 0, 2>>)}

\* responses cut short after their code, and the chunks a listener added
\* from outside is shown
SHORT_INPUT_PAYLOAD == <<106>>
SHORT_SPEAKER_PAYLOAD == <<107, 2>>
NotifyChunks ==
    {Frame(SYSTEM_PAYLOAD), Frame(SYSTEM_PAYLOAD_LOUD), Frame(INPUT_PAYLOAD),
     Frame(SHORT_INPUT_PAYLOAD), Frame(SPEAKER_PAYLOAD),
     Frame(SHORT_SPEAKER_PAYLOAD), Frame(SOFTWARE_PAYLOAD),
     Frame(EXTRA_PAYLOAD), <<35, 65, 105>>}

\* the responses that arrive while the transmitter runs
DuplexChunks == {Frame(SYSTEM_PAYLOAD), Frame(INPUT_PAYLOAD)}

\* payloads of one and two bytes: control, whitespace, letters, response
\* codes, and bytes with the top bit set
RoundTripBytes == {0, 9, 32, 65, 105, 108, 127, 128, 194, 200, 254}
RoundTripPayloads ==
    {<<a>> : a \in RoundTripBytes}
        \cup {<<a, b>> : a \in RoundTripBytes, b \in RoundTripBytes}

\* what the Delimiter parser makes of the bytes of one frame: the bytes
\* before the first delimiter byte
DelimitedChunk(bytes) ==
    LET eol == AsciiBuffer(MESSAGE_EOL)[1]
        first == CHOOSE k \in 1..Len(bytes) :
                    bytes[k] = eol /\ \A j \in 1..(k - 1) : bytes[j] /= eol
    IN  SubSeq(bytes, 1, first - 1)

\* a payload framed as the transmitter frames a command and read back, and
\* framed as the device frames a response
LoopbackChunks ==
    {DelimitedChunk(FrameBytes(payload)) : payload \in RoundTripPayloads}
ResponseChunks == {Frame(payload) : payload \in RoundTripPayloads}

\* the strings processAV2Response is handed, as sequences of character
\* codes: the three statuses with one position taking every value 0..255,
\* in the system status beside other bytes all clear and all set
ByteValues == 0..255
SystemCommands ==
    UNION {{<<105, b, o, o, 0, 2>>, <<105, o, b, o, 0, 2>>,
            <<105, o, o, b, 0, 2>>, <<105, o, o, o, 0, b>>} :
           b \in ByteValues, o \in {0, 255}}
InputCommands ==
    {[INPUT_PAYLOAD EXCEPT ![k + 1] = b] : k \in 1..13, b \in ByteValues}
SpeakerCommands ==
    {[SPEAKER_PAYLOAD EXCEPT ![k + 1] = b] : k \in 7..22, b \in ByteValues}
DecodeCommands == SystemCommands \cup InputCommands \cup SpeakerCommands

\* complete status responses whose last data byte takes every value below
\* 128: the decode mode of a system status, the subwoofer level of a
\* speaker menu status and the patch number of a firmware version
StripBytes == 0..127
StripChunks ==
    {Frame([SYSTEM_PAYLOAD EXCEPT ![6] = b]) : b \in StripBytes}
        \cup {Frame([SPEAKER_PAYLOAD EXCEPT ![23] = b]) : b \in StripBytes}
        \cup {Frame([FIRMWARE_PAYLOAD EXCEPT ![4] = b]) : b \in StripBytes}

\* the SYSTEM_STATUS response an amplifier in verbose mode sends for its
\* state d: power is bit 7 of byte 1, verbose bit 4 and the current input
\* bits 0-3 of byte 2, mute bit 7 and the volume bits 0-6 of byte 3, and
\* byte 5 says Stereo
DeviceVolumes == {0, 20, 50}
DeviceStates ==
    [power : BOOLEAN, mute : BOOLEAN, volume : DeviceVolumes,
     currentInput : NaimAV2CurrentInput \ {"Multi", "Future"}]
DeviceStatus(d) ==
    Frame(<<105,
            IF d.power THEN 128 ELSE 0,
            16 + (CHOOSE n \in 1..10 :
                     CurrentInputForNibble(n) = d.currentInput),
            (IF d.mute THEN 128 ELSE 0) + d.volume,
            0,
            2>>)
DeviceChunks == {DeviceStatus(d) : d \in DeviceStates}

\* the five statuses at their full length, and every one of them cut short
\* after each of its bytes, down to the code byte alone
LayoutPayloads ==
    {SYSTEM_PAYLOAD, INPUT_PAYLOAD, SPEAKER_PAYLOAD, SOFTWARE_PAYLOAD,
     FIRMWARE_PAYLOAD}
ShortChunks ==
    UNION {{Frame(SubSeq(payload, 1, n)) : n \in 1..Len(payload)} :
              payload \in LayoutPayloads}

\* every chunk explored
AllChunks ==
    Chunks \cup VolumeChunks \cup NotifyChunks \cup LoopbackChunks
        \cup ResponseChunks \cup StripChunks \cup DeviceChunks
        \cup ShortChunks

\* arguments the setters are called with
InputArgs == {"VIP1", "OP1", "Multi", "Future"}
VolumeArgs == {0, 50, 150}
LabelInputArgs == {"AN3", "Multi"}
LabelArgs == {"AN3", "DVD", "---"}

(* ------------------------------ helpers ------------------------------- *)

\* the transmitter's variables, which no facade operation touches
PortIdle ==
    UNCHANGED <<tickWait, sending, sinceLastSendCommandEnd, sinceLastStart,
                chains, wire, errors>>

\* this.port.sendCommand(c) for every c of commands, in order
RECURSIVE PushAll(_, _)
PushAll(buffer, commands) ==
    IF Len(commands) = 0 THEN buffer
    ELSE PushAll(Push(buffer, Head(commands)), Tail(commands))

SendAll(commands) ==
    /\ sendBuffer' = PushAll(sendBuffer, commands)
    /\ enqueued' = enqueued \o commands
    /\ lastSent' = commands

\* a setter is called from outside
Called(op, flag, num, input, label) ==
    /\ setterCalls' = setterCalls + 1
    /\ lastCall' = [op |-> op, flag |-> flag, num |-> num, input |-> input,
                    label |-> label, bytes |-> <<>>]
    /\ UNCHANGED <<cecSent, notifications, outsideVars>>

\* the behaviours that explore every setter call one
CallsLeft == setterCalls < MaxCalls

\* what the setters of an on/off setting share:
\*   if (value && !cached)  { sendCommand(on);  [cached = true;]  return; }
\*   if (!value && cached)  { sendCommand(off); [cached = false;] return; }
\* writesCache tells whether the bracketed assignments are there
OnOffSetter(field, value, on, off, writesCache) ==
    LET differs == value /= state.system[field]
    IN  /\ SendAll(IF differs THEN <<IF value THEN on ELSE off>> ELSE <<>>)
        /\ state' = IF differs /\ writesCache
                    THEN [state EXCEPT !.system[field] = value]
                    ELSE state
        /\ UNCHANGED <<opened, started, volumeChangeTimeout, timers,
                       sinceVolumeChange, stateChangeCount, readyCount,
                       decoded>>
        /\ PortIdle

(* ------------------------------ setters ------------------------------- *)

\* variant: setPower sends the command and leaves the cache alone
setPowerLeavesCache(power) ==
    /\ Called("setPower", power, 0, "", "")
    /\ OnOffSetter("power", power, NaimAV2Commands.ON,
                   NaimAV2Commands.STANDBY, FALSE)

\* the body of setPower(power)
SetPowerBody(power) ==
    OnOffSetter("power", power, NaimAV2Commands.ON, NaimAV2Commands.STANDBY,
                TRUE)

setPower(power) ==
    /\ Called("setPower", power, 0, "", "")
    /\ SetPowerBody(power)

setMute(mute) ==
    /\ Called("setMute", mute, 0, "", "")
    /\ OnOffSetter("mute", mute, NaimAV2Commands.MUTE_ON,
                   NaimAV2Commands.MUTE_OFF, TRUE)

setDisplay(display) ==
    /\ Called("setDisplay", display, 0, "", "")
    /\ OnOffSetter("display", display, NaimAV2Commands.DISPLAY_ON,
                   NaimAV2Commands.DISPLAY_OFF, TRUE)

setMidnightMode(midnightMode) ==
    /\ Called("setMidnightMode", midnightMode, 0, "", "")
    /\ OnOffSetter("midnightMode", midnightMode, NaimAV2Commands.MIDNIGHT_ON,
                   NaimAV2Commands.MIDNIGHT_OFF, TRUE)

setBassMix(bassMix) ==
    /\ Called("setBassMix", bassMix, 0, "", "")
    /\ OnOffSetter("bassMix", bassMix, NaimAV2Commands.BASS_MIX_ON,
                   NaimAV2Commands.BASS_MIX_OFF, TRUE)

setCineEq(cineEq) ==
    /\ Called("setCineEq", cineEq, 0, "", "")
    /\ OnOffSetter("cineEq", cineEq, NaimAV2Commands.CINE_EQ_ON,
                   NaimAV2Commands.CINE_EQ_OFF, TRUE)

setVerbose(verbose) ==
    /\ Called("setVerbose", verbose, 0, "", "")
    /\ OnOffSetter("verbose", verbose, NaimAV2Commands.VERBOSE_ON,
                   NaimAV2Commands.VERBOSE_OFF, TRUE)

\* variant: entering or leaving the input menu is written to the cache at once
setInputMenuModeWritesCache(inputMenu) ==
    /\ Called("setInputMenuMode", inputMenu, 0, "", "")
    /\ OnOffSetter("inputMenu", inputMenu, NaimAV2Commands.ENTER_INPUT_MENU,
                   NaimAV2Commands.EXIT_INPUT_MENU, TRUE)

setInputMenuMode(inputMenu) ==
    /\ Called("setInputMenuMode", inputMenu, 0, "", "")
    /\ OnOffSetter("inputMenu", inputMenu, NaimAV2Commands.ENTER_INPUT_MENU,
                   NaimAV2Commands.EXIT_INPUT_MENU, FALSE)

setSpeakerMenuMode(speakerMenu) ==
    /\ Called("setSpeakerMenuMode", speakerMenu, 0, "", "")
    /\ OnOffSetter("speakerMenu", speakerMenu,
                   NaimAV2Commands.ENTER_SPEAKER_MENU,
                   NaimAV2Commands.EXIT_SPEAKER_MENU, FALSE)

\* the command each of the ten if statements of setInput sends
InputCommand(input) ==
    IF input = "VIP1" THEN NaimAV2Commands.INPUT_AN1
    ELSE IF input = "VIP2" THEN NaimAV2Commands.INPUT_AN2
    ELSE IF input = "AN3" THEN NaimAV2Commands.INPUT_AN3
    ELSE IF input = "AN4" THEN NaimAV2Commands.INPUT_AN4
    ELSE IF input = "AN5" THEN NaimAV2Commands.INPUT_AN5
    ELSE IF input = "AN6" THEN NaimAV2Commands.INPUT_AN6
    ELSE IF input = "OP1" THEN NaimAV2Commands.INPUT_OP1
    ELSE IF input = "OP2" THEN NaimAV2Commands.INPUT_OP2
    ELSE IF input = "CO1" THEN NaimAV2Commands.INPUT_CO1
    ELSE IF input = "CO2" THEN NaimAV2Commands.INPUT_CO2
    ELSE <<>>

\* the inputs setInput and setInputLabel have a command for
SelectableInputs == NaimAV2CurrentInput \ {"Multi", "Future"}

setInput(input) ==
    /\ Called("setInput", FALSE, 0, input, "")
    /\ SendAll(IF input \in SelectableInputs
                  /\ state.system.currentInput /= input
               THEN <<InputCommand(input)>> ELSE <<>>)
    /\ state' = [state EXCEPT !.system.currentInput = input]
    /\ UNCHANGED <<opened, started, volumeChangeTimeout, timers,
                   sinceVolumeChange, stateChangeCount, readyCount, decoded>>
    /\ PortIdle

setUnits(units) ==
    /\ Called("setUnits", FALSE, 0, "", units)
    /\ SendAll(IF units = state.speaker.units THEN <<>>
               ELSE IF units = "Feet" THEN <<NaimAV2Commands.SET_UNITS_FEET>>
               ELSE IF units = "Metres"
               THEN <<NaimAV2Commands.SET_UNITS_METRES>>
               ELSE <<>>)
    /\ UNCHANGED <<opened, started, state, volumeChangeTimeout, timers,
                   sinceVolumeChange, stateChangeCount, readyCount, decoded>>
    /\ PortIdle

\* the body of setVolume(volume)
\* variant: setVolume starts the new timer and leaves the old one running
SetTimeoutKeepingOld(pending, handle, next) ==
    pending \cup {[handle |-> next, wait |-> SYNC_DELAY]}

\* clearTimeout(this.volumeChangeTimeout) when the handle is set, then
\* setTimeout(..., 1000): the timers pending afterwards
SetTimeoutAfterClear(pending, handle, next) ==
    {timer \in pending : handle = 0 \/ timer.handle /= handle}
        \cup {[handle |-> next, wait |-> SYNC_DELAY]}

SetVolumeBody(volume) ==
    IF state.system.volume = volume
    THEN /\ SendAll(<<>>)
         /\ UNCHANGED <<state, volumeChangeTimeout, timers, sinceVolumeChange>>
    ELSE /\ SendAll(<<NaimAV2Commands.VOLUME \o FromCharCode(volume)>>)
         /\ state' = [state EXCEPT !.system.volume = volume]
         /\ volumeChangeTimeout' = volumeChangeTimeout + 1
         /\ timers' = SetTimeoutAfterClear(timers, volumeChangeTimeout,
                                           volumeChangeTimeout + 1)
         /\ sinceVolumeChange' = 0

\* setVolume(volume), whoever calls it
SetVolumeCalled(volume) ==
    /\ Called("setVolume", FALSE, volume, "", "")
    /\ SetVolumeBody(volume)
    /\ UNCHANGED <<opened, started, stateChangeCount, readyCount, decoded>>
    /\ PortIdle

setVolume(volume) ==
    /\ setterCalls < MaxCalls
    /\ SetVolumeCalled(volume)

\* variant: incrementVolume passes 10 on
NewVolUpThroughTen(vol) == vol + 1

\* let newVol = vol + 1; if (newVol == 10) { newVol = 11; }
NewVolUp(vol) == IF vol + 1 = 10 THEN 11 ELSE vol + 1

\* let newVol = vol - 1; if (newVol == 10) { newVol = 9; }
NewVolDown(vol) == IF vol - 1 = 10 THEN 9 ELSE vol - 1

IncrementVolumeCalled ==
    /\ Called("incrementVolume", FALSE, 0, "", "")
    /\ LET vol == state.system.volume
       IN  IF vol = 99
           THEN /\ SendAll(<<>>)
                /\ UNCHANGED <<state, volumeChangeTimeout, timers,
                               sinceVolumeChange>>
           ELSE SetVolumeBody(NewVolUp(vol))
    /\ UNCHANGED <<opened, started, stateChangeCount, readyCount, decoded>>
    /\ PortIdle

incrementVolume ==
    /\ setterCalls < MaxCalls
    /\ IncrementVolumeCalled

DecrementVolumeCalled ==
    /\ Called("decrementVolume", FALSE, 0, "", "")
    /\ LET vol == state.system.volume
       IN  IF vol = 0
           THEN /\ SendAll(<<>>)
                /\ UNCHANGED <<state, volumeChangeTimeout, timers,
                               sinceVolumeChange>>
           ELSE SetVolumeBody(NewVolDown(vol))
    /\ UNCHANGED <<opened, started, stateChangeCount, readyCount, decoded>>
    /\ PortIdle

decrementVolume ==
    /\ setterCalls < MaxCalls
    /\ DecrementVolumeCalled

\* getInputLabel(input): the switch over the ten inputs and the return
\* after it
getInputLabel(input) ==
    IF input = "VIP1" THEN state.input.vip1InputLabel
    ELSE IF input = "VIP2" THEN state.input.vip2InputLabel
    ELSE IF input = "AN3" THEN state.input.an3InputLabel
    ELSE IF input = "AN4" THEN state.input.an4InputLabel
    ELSE IF input = "AN5" THEN state.input.an5InputLabel
    ELSE IF input = "AN6" THEN state.input.an6InputLabel
    ELSE IF input = "OP1" THEN state.input.op1InputLabel
    ELSE IF input = "OP2" THEN state.input.vip1InputLabel
    ELSE IF input = "CO1" THEN state.input.vip1InputLabel
    ELSE IF input = "CO2" THEN state.input.vip1InputLabel
    ELSE "---"

\* the first character of the command each case of setInputLabel sends
LabelCommandCode(input) ==
    IF input = "VIP1" THEN 67
    ELSE IF input = "VIP2" THEN 68
    ELSE IF input = "AN3" THEN 69
    ELSE IF input = "AN4" THEN 70
    ELSE IF input = "AN5" THEN 71
    ELSE IF input = "AN6" THEN 72
    ELSE IF input = "OP1" THEN 73
    ELSE IF input = "OP2" THEN 74
    ELSE IF input = "CO1" THEN 75
    ELSE 76

setInputLabel(input, label) ==
    /\ Called("setInputLabel", FALSE, 0, input, label)
    /\ LET labelCode == getByteForInputLabel(label)
       IN  SendAll(IF labelCode = 0 \/ labelCode = null THEN <<>>
                   ELSE IF input \in SelectableInputs
                   THEN <<FromCharCode(LabelCommandCode(input))
                          \o FromCharCode(labelCode)>>
                   ELSE <<>>)
    /\ UNCHANGED <<opened, started, state, volumeChangeTimeout, timers,
                   sinceVolumeChange, stateChangeCount, readyCount, decoded>>
    /\ PortIdle

(* ------------------------- the port's events -------------------------- *)

\* variant: the queries are queued first and setVerbose(true) is called last
StartupCommandsQueriesFirst(verbose) ==
    <<NaimAV2Commands.STATUS_QUERY,
      NaimAV2Commands.INPUT_MENU_QUERY,
      NaimAV2Commands.SPEAKER_MENU_QUERY,
      NaimAV2Commands.SOFTWARE_VERSION_QUERY,
      NaimAV2Commands.FIRMWARE_VERSION_QUERY,
      NaimAV2Commands.EXTRA_STATUS_QUERY>>
        \o (IF verbose THEN <<>> ELSE <<NaimAV2Commands.VERBOSE_ON>>)

\* what the 'ready' listener hands to sendCommand, in order: the command of
\* setVerbose(true), sent when the cached verbose is false, then six queries
StartupCommands(verbose) ==
    (IF verbose THEN <<>> ELSE <<NaimAV2Commands.VERBOSE_ON>>)
        \o <<NaimAV2Commands.STATUS_QUERY,
             NaimAV2Commands.INPUT_MENU_QUERY,
             NaimAV2Commands.SPEAKER_MENU_QUERY,
             NaimAV2Commands.SOFTWARE_VERSION_QUERY,
             NaimAV2Commands.FIRMWARE_VERSION_QUERY,
             NaimAV2Commands.EXTRA_STATUS_QUERY>>

\* the serial port opens: the port starts its interval and emits 'ready',
\* whose listener calls setVerbose(true) and queues the six queries
PortReady ==
    /\ ~opened
    /\ opened' = TRUE
    /\ tickWait' = COMMAND_QUEUE_INTERVAL
    /\ SendAll(StartupCommands(state.system.verbose))
    /\ state' = [state EXCEPT !.system.verbose = TRUE]
    /\ lastCall' = [op |-> "open", flag |-> FALSE, num |-> 0, input |-> "",
                    label |-> "", bytes |-> <<>>]
    /\ UNCHANGED <<sending, sinceLastSendCommandEnd, sinceLastStart, chains,
                   wire, errors, started, volumeChangeTimeout,
                   stateChangeCount, readyCount, setterCalls, decoded,
                   timers, sinceVolumeChange, cecSent, notifications,
                   outsideVars>>

\* chunk.toString() for every chunk explored, worked out once
ResponseOf == [chunk \in AllChunks |-> Utf8ToString(chunk)]

\* variant: a chunk is taken for a response when its second to fifth
\* characters are 'AV2 '
HeaderMatchesLoosely(response) ==
    SubSeq(SubstrTo(response, 5), 2, Len(SubstrTo(response, 5)))
        = MESSAGE_DEVICE_ID \o MESSAGE_SPACE

\* response.substr(0, 5) !== responseHeader is false
HeaderMatches(response) == SubstrTo(response, 5) = responseHeader

\* variant: the listener leaves the flags alone and marks READY beside them
StartedAfterReadyKeepsFlags(s) == BitOr(s, NaimAV2StartupState.READY)

\* this.started = NaimAV2StartupState.READY
StartedAfterReady(s) == NaimAV2StartupState.READY

\* JSON.parse(JSON.stringify(n)) for a number n: NaN is written as null
JsonNumber(n) == IF n = NaN THEN null ELSE n

\* the fields of the state that hold numbers
NumberFields ==
    {"volume", "panoramaWidth", "panoramaDepth", "speakerDistanceLeft",
     "speakerDistanceCentre", "speakerDistanceRight",
     "speakerDistanceRightSurround", "speakerDistanceRightRear",
     "speakerDistanceLeftRear", "speakerDistanceLeftSurround",
     "speakerDistanceSubwoofer", "speakerLevelLeft", "speakerLevelCentre",
     "speakerLevelRight", "speakerLevelRightSurround",
     "speakerLevelRightRear", "speakerLevelLeftRear",
     "speakerLevelLeftSurround", "speakerLevelSubwoofer"}

\* JSON.parse(JSON.stringify(this.state)): booleans and strings come back as
\* they were, numbers as JsonNumber gives them
JsonClone(st) ==
    [sub \in DOMAIN st |->
        IF sub \in {"system", "input", "speaker"}
        THEN [field \in DOMAIN st[sub] |->
                 IF field \in NumberFields THEN JsonNumber(st[sub][field])
                 ELSE st[sub][field]]
        ELSE st[sub]]

\* processAV2Response(command) with the listeners of the 'stateChange' it
\* emits: the one that raises 'ready' and, when listening, one added from
\* outside that keeps its arguments
processAV2Response(command, listening) ==
    LET case == CaseOf(CharAt(command, 0))
        flagged == BitOr(started, FlagOfCase(case))
        prevState == JsonClone(state)
    IN  IF case = "none"
        THEN UNCHANGED <<state, started, stateChangeCount, readyCount,
                         decoded, notifications>>
        ELSE /\ state' = StateAfterCase(state, case, command)
             /\ decoded' = decoded \cup {case}
             /\ stateChangeCount' = stateChangeCount + 1
             /\ notifications' =
                   IF listening
                   THEN Append(notifications,
                               [state |-> state', prevState |-> prevState])
                   ELSE notifications
             /\ IF ReadyDue(flagged)
                THEN /\ started' = StartedAfterReady(flagged)
                     /\ readyCount' = readyCount + 1
                ELSE /\ started' = flagged
                     /\ UNCHANGED readyCount

\* variant: a response that holds nothing but its code is dropped
EmittedCommandsWithData(chunk) ==
    LET response == ResponseOf[chunk]
    IN  IF HeaderMatches(response) /\ Len(TrimEnd(SubstrFrom(response, 5))) > 1
        THEN <<TrimEnd(SubstrFrom(response, 5))>>
        ELSE <<>>

\* the 'command' events the parser's 'data' handler emits for a chunk: none
\* when the header check fails, else one with response.substr(5).trimEnd()
EmittedCommands(chunk) ==
    LET response == ResponseOf[chunk]
    IN  IF HeaderMatches(response)
        THEN <<TrimEnd(SubstrFrom(response, 5))>>
        ELSE <<>>

\* the parser's 'data' handler with everything it calls: the header check
\* and emit('command') into processAV2Response
ParserDataHandled(chunk, listening) ==
    /\ opened
    /\ lastCall' = [op |-> "data", flag |-> FALSE, num |-> 0, input |-> "",
                    label |-> "", bytes |-> chunk]
    /\ IF EmittedCommands(chunk) /= <<>>
       THEN processAV2Response(EmittedCommands(chunk)[1], listening)
       ELSE UNCHANGED <<state, started, stateChangeCount, readyCount,
                        decoded, notifications>>
    /\ UNCHANGED <<opened, sendBuffer, enqueued, volumeChangeTimeout,
                   setterCalls, timers, sinceVolumeChange, cecSent,
                   lastSent, device, deviceRead, playerVars>>
    /\ PortIdle

\* a chunk arrives, in the behaviours that explore every setter
ParserData(chunk) ==
    /\ stateChangeCount < MaxStateChanges
    /\ ParserDataHandled(chunk, FALSE)
    /\ UNCHANGED inbox

FacadeNext ==
    \/ PortReady
    \/ \E chunk \in Chunks : ParserData(chunk)
    \/ CallsLeft /\ \E power \in BOOLEAN : setPower(power)
    \/ CallsLeft /\ \E mute \in BOOLEAN : setMute(mute)
    \/ CallsLeft /\ \E display \in BOOLEAN : setDisplay(display)
    \/ CallsLeft /\ \E midnightMode \in BOOLEAN : setMidnightMode(midnightMode)
    \/ CallsLeft /\ \E bassMix \in BOOLEAN : setBassMix(bassMix)
    \/ CallsLeft /\ \E cineEq \in BOOLEAN : setCineEq(cineEq)
    \/ CallsLeft /\ \E verbose \in BOOLEAN : setVerbose(verbose)
    \/ CallsLeft /\ \E inputMenu \in BOOLEAN : setInputMenuMode(inputMenu)
    \/ CallsLeft /\ \E speakerMenu \in BOOLEAN : setSpeakerMenuMode(speakerMenu)
    \/ CallsLeft /\ \E input \in InputArgs : setInput(input)
    \/ CallsLeft /\ \E units \in {"Feet", "Metres"} : setUnits(units)
    \/ \E volume \in VolumeArgs : setVolume(volume)
    \/ incrementVolume
    \/ decrementVolume
    \/ CallsLeft /\ \E input \in LabelInputArgs, label \in LabelArgs :
                       setInputLabel(input, label)

FacadeSpec == Init /\ [][FacadeNext]_vars

(* ------------------------ steps, as seen from outside ------------------ *)

\* the parser delivers chunk in this step
DataStep(chunk) ==
    /\ lastCall'.op = "data"
    /\ lastCall'.bytes = chunk
    /\ setterCalls' = setterCalls
    /\ opened' = opened

\* the setter op is called in this step
SetterStep(op) == setterCalls' = setterCalls + 1 /\ lastCall'.op = op

\* 'ready' is raised in this step
ReadyStep == readyCount' = readyCount + 1

\* the chunk starts with the five bytes '#AV2 '
HasResponseHeader(chunk) ==
    /\ Len(chunk) >= 5
    /\ SubSeq(chunk, 1, 5) = <<35, 65, 86, 50, 32>>

\* the first payload byte of a chunk that has one
CodeByte(chunk) == chunk[6]

\* the five statuses whose arrival completes the startup
FiveCases ==
    {"SYSTEM_STATUS", "INPUT_MENU_STATUS", "SPEAKER_MENU_STATUS",
     "SOFTWARE_VERSION", "FIRMWARE_VERSION"}

\* the six obtained-flags of the startup bitmask
ObtainedFlags ==
    {NaimAV2StartupState.GOT_SYSTEM, NaimAV2StartupState.GOT_INPUT,
     NaimAV2StartupState.GOT_SPEAKER, NaimAV2StartupState.GOT_SOFTWARE,
     NaimAV2StartupState.GOT_FIRMWARE, NaimAV2StartupState.GOT_EXTRA}

(* ------------------------------ C11 ----------------------------------- *)
\* C11 (startup ready fires exactly once): 'ready' is raised once and never
\* again, whatever is decoded afterwards; once the startup is marked READY
\* it has been raised exactly once.
C11_ReadyExactlyOnce ==
    /\ readyCount <= 1
    /\ started = NaimAV2StartupState.READY => readyCount = 1

(* ------------------------------ C12 ----------------------------------- *)
\* C12 (ready precondition): a step raises 'ready' only when, that step
\* included, a system, an input-menu, a speaker-menu, a software-version and
\* a firmware-version response have each been decoded; and the decode that
\* completes these five raises it, with the extra flag never set.
C12_ReadyPrecondition ==
    [][/\ ReadyStep => FiveCases \subseteq decoded'
       /\ (FiveCases \subseteq decoded' /\ ~(FiveCases \subseteq decoded))
             => /\ ReadyStep
                /\ BitAnd(started, NaimAV2StartupState.GOT_EXTRA) = 0]_vars

\* 'ready' has been raised by the fifth decode, the one before it being the
\* fourth
C12_Witness ==
    /\ readyCount = 1
    /\ stateChangeCount = 5
    /\ decoded = FiveCases
    /\ lastCall.op = "data"

(* ------------------------------ C13 ----------------------------------- *)
\* C13 (startup progress is monotonic): an obtained-flag that is set in the
\* startup bitmask is still set after every step, the step that raises
\* 'ready' included.
C13_FlagsNeverCleared ==
    [][\A flag \in ObtainedFlags :
          BitAnd(started, flag) /= 0 => BitAnd(started', flag) /= 0]_vars

(* ------------------------------ C14 ----------------------------------- *)
\* the obtained-flag that belongs to each of the six response codes
StartupFlagOfCode ==
    (105 :> NaimAV2StartupState.GOT_SYSTEM)
        @@ (106 :> NaimAV2StartupState.GOT_INPUT)
        @@ (107 :> NaimAV2StartupState.GOT_SPEAKER)
        @@ (108 :> NaimAV2StartupState.GOT_SOFTWARE)
        @@ (109 :> NaimAV2StartupState.GOT_FIRMWARE)
        @@ (144 :> NaimAV2StartupState.GOT_EXTRA)

\* C14 (every successful decode is flagged and notified): when a chunk with
\* the header '#AV2 ' and one of the six response codes as its first payload
\* byte is delivered, exactly one 'stateChange' is raised and the code's flag
\* is set afterwards (or the startup is marked READY by that very step).
C14_DecodeFlaggedAndNotified ==
    [][\A chunk \in Chunks :
          (/\ DataStep(chunk)
           /\ HasResponseHeader(chunk)
           /\ Len(chunk) > 5
           /\ CodeByte(chunk) \in DOMAIN StartupFlagOfCode)
             => /\ stateChangeCount' = stateChangeCount + 1
                /\ \/ BitAnd(started', StartupFlagOfCode[CodeByte(chunk)]) /= 0
                   \/ started' = NaimAV2StartupState.READY]_vars

(* ------------------------------ C15 ----------------------------------- *)
\* the case a status payload is decoded by
CaseOfCode ==
    (105 :> "SYSTEM_STATUS") @@ (106 :> "INPUT_MENU_STATUS")
        @@ (107 :> "SPEAKER_MENU_STATUS") @@ (108 :> "SOFTWARE_VERSION")
        @@ (109 :> "FIRMWARE_VERSION")

\* C15 (invalid header is dropped): a chunk whose first five bytes are not
\* '#AV2 ' changes no part of the cached state and no startup flag, raises
\* neither 'stateChange' nor 'ready' and leaves the queue and the busy flag
\* as they are; a status frame delivered right after it is decoded.
C15_InvalidHeaderDropped ==
    [][\A chunk \in Chunks :
          /\ (DataStep(chunk) /\ ~HasResponseHeader(chunk))
                => UNCHANGED <<state, started, decoded, stateChangeCount,
                               readyCount, sendBuffer, enqueued, sending,
                               chains, wire>>
          /\ (/\ lastCall.op = "data"
              /\ ~HasResponseHeader(lastCall.bytes)
              /\ DataStep(chunk)
              /\ HasResponseHeader(chunk)
              /\ Len(chunk) > 5
              /\ CodeByte(chunk) \in DOMAIN CaseOfCode)
                => /\ stateChangeCount' = stateChangeCount + 1
                   /\ CaseOfCode[CodeByte(chunk)] \in decoded']_vars

\* a chunk without the header has just been dropped, with commands waiting
\* in the queue and earlier frames decoded
C15_Witness ==
    /\ lastCall.op = "data"
    /\ ~HasResponseHeader(lastCall.bytes)
    /\ Len(sendBuffer) > 0
    /\ decoded /= {}
    /\ stateChangeCount < MaxStateChanges

(* ------------------------------ C16 ----------------------------------- *)
\* the six known response codes
KnownCodes == {105, 106, 107, 108, 109, 144}

\* the chunk has the header '#AV2 ' and a payload that is empty or starts
\* with a byte that is none of the six codes
HasUnknownCode(chunk) ==
    /\ HasResponseHeader(chunk)
    /\ Len(chunk) > 5 => CodeByte(chunk) \notin KnownCodes

\* C16 (unknown response codes are ignored): a chunk with the header and a
\* first payload byte that is none of the six codes (or no payload at all)
\* changes no field of the cached state and no startup flag, and raises no
\* 'stateChange', no 'ready' and no error.
C16_UnknownCodeIgnored ==
    [][\A chunk \in Chunks :
          (DataStep(chunk) /\ HasUnknownCode(chunk))
             => UNCHANGED <<state, started, decoded, stateChangeCount,
                            readyCount, errors>>]_vars

\* a frame with an unknown code has just been delivered, after the decode of
\* some status
C16_Witness ==
    /\ lastCall.op = "data"
    /\ HasUnknownCode(lastCall.bytes)
    /\ Len(lastCall.bytes) > 5
    /\ decoded /= {}

(* ------------------------------ C17 ----------------------------------- *)
\* the sub-records of the cached state, and the one each status code replaces
SubRecords == {"system", "input", "speaker", "software", "firmware", "extra"}
SubRecordOfCode ==
    (105 :> "system") @@ (106 :> "input") @@ (107 :> "speaker")
        @@ (108 :> "software") @@ (109 :> "firmware")

\* a frame with the code that belongs to the sub-record is delivered in this
\* step
MatchingDecodeStep(sub) ==
    /\ DataStep(lastCall'.bytes)
    /\ HasResponseHeader(lastCall'.bytes)
    /\ Len(lastCall'.bytes) > 5
    /\ CodeByte(lastCall'.bytes) \in DOMAIN SubRecordOfCode
    /\ SubRecordOfCode[CodeByte(lastCall'.bytes)] = sub

\* C17 (cache is changed only by responses): a sub-record of the cached
\* state changes only in a step that decodes a frame with the matching code;
\* no setter call and no other operation changes any field.
C17_CacheOnlyByResponses ==
    [][\A sub \in SubRecords :
          state'[sub] /= state[sub] => MatchingDecodeStep(sub)]_vars

\* the setters that write their value to the cache when they send it, with
\* the field of the system sub-record each one writes
FieldWrittenBy ==
    ("setPower" :> "power") @@ ("setMute" :> "mute")
        @@ ("setDisplay" :> "display")
        @@ ("setMidnightMode" :> "midnightMode")
        @@ ("setBassMix" :> "bassMix") @@ ("setCineEq" :> "cineEq")
        @@ ("setVerbose" :> "verbose") @@ ("setVolume" :> "volume")
        @@ ("incrementVolume" :> "volume") @@ ("decrementVolume" :> "volume")
        @@ ("setInput" :> "currentInput")

\* the setters that leave the cache to the device's response
SendOnlySetters ==
    {"setInputMenuMode", "setSpeakerMenuMode", "setUnits", "setInputLabel"}

\* the step changes, of the system sub-record, the one field given at most
OnlyFieldChanges(field) ==
    state'.system = [state.system EXCEPT ![field] = state'.system[field]]

\* C17, amended: a sub-record changes only in a step that decodes a frame
\* with the matching code, or, for the system sub-record, in a call of one
\* of the setters of FieldWrittenBy, which changes that setter's field only,
\* or when the port opens, which sets verbose; the four send-only setters
\* change nothing of the cache.
C17_CacheWriters ==
    [][/\ \A sub \in SubRecords :
             state'[sub] /= state[sub]
                => \/ MatchingDecodeStep(sub)
                   \/ /\ sub = "system"
                      /\ \E op \in DOMAIN FieldWrittenBy :
                            SetterStep(op) /\ OnlyFieldChanges(FieldWrittenBy[op])
                   \/ /\ sub = "system"
                      /\ opened' /= opened
                      /\ state'.system = [state.system EXCEPT !.verbose = TRUE]
       /\ \A op \in SendOnlySetters : SetterStep(op) => state' = state]_vars

\* setPower(true) has changed the cached power with no response decoded yet
C17_Witness ==
    /\ lastCall.op = "setPower"
    /\ state.system.power
    /\ decoded = {}

(* ------------------------------ C18 ----------------------------------- *)
\* C18 (volume bound): the cached volume is within 0..99 in every reachable
\* state.
C18_VolumeBound == state.system.volume \in 0..99

(* ------------------------------ C19 ----------------------------------- *)
\* the on/off setters, with the field of the system sub-record each is for
OnOffField ==
    ("setPower" :> "power") @@ ("setMute" :> "mute")
        @@ ("setDisplay" :> "display")
        @@ ("setMidnightMode" :> "midnightMode")
        @@ ("setBassMix" :> "bassMix") @@ ("setCineEq" :> "cineEq")
        @@ ("setVerbose" :> "verbose")
        @@ ("setInputMenuMode" :> "inputMenu")
        @@ ("setSpeakerMenuMode" :> "speakerMenu")

\* the field of the input sub-record that holds the label of each input
LabelField ==
    ("VIP1" :> "vip1InputLabel") @@ ("VIP2" :> "vip2InputLabel")
        @@ ("AN3" :> "an3InputLabel") @@ ("AN4" :> "an4InputLabel")
        @@ ("AN5" :> "an5InputLabel") @@ ("AN6" :> "an6InputLabel")
        @@ ("OP1" :> "op1InputLabel") @@ ("OP2" :> "op2InputLabel")
        @@ ("CO1" :> "co1InputLabel") @@ ("CO2" :> "co2InputLabel")

\* a setter is called in this step with the value the cache already holds
\* (call is the record of the call, st the cached state before it)
CalledWithCachedValue(call, st) ==
    \/ /\ call.op \in DOMAIN OnOffField
       /\ call.flag = st.system[OnOffField[call.op]]
    \/ call.op = "setUnits" /\ call.label = st.speaker.units
    \/ call.op = "setVolume" /\ call.num = st.system.volume
    \/ call.op = "setInput" /\ call.input = st.system.currentInput
    \/ /\ call.op = "setInputLabel"
       /\ call.input \in DOMAIN LabelField
       /\ call.label = st.input[LabelField[call.input]]

\* C19 (idempotent setters): a setter called with the value the cache holds
\* queues no command and leaves the cached state and the volume debounce
\* timer as they are.
C19_IdempotentSetters ==
    [][(setterCalls' = setterCalls + 1 /\ CalledWithCachedValue(lastCall', state))
          => UNCHANGED <<sendBuffer, enqueued, state, volumeChangeTimeout>>]_vars

(* ------------------------------ C20 ----------------------------------- *)
\* a setter is called in this step with a value the cache does not hold
CalledWithOtherValue(call, st) ==
    \/ /\ call.op \in DOMAIN OnOffField
       /\ call.flag /= st.system[OnOffField[call.op]]
    \/ call.op = "setUnits" /\ call.label /= st.speaker.units
    \/ call.op = "setVolume" /\ call.num /= st.system.volume
    \/ call.op = "setInput" /\ call.input /= st.system.currentInput
    \/ /\ call.op = "setInputLabel"
       /\ call.input \in DOMAIN LabelField
       /\ call.label /= st.input[LabelField[call.input]]

\* the commands of the protocol for switching each setting on and off
OnOffCommands ==
    ("setPower" :> <<33, 34>>) @@ ("setMute" :> <<36, 37>>)
        @@ ("setDisplay" :> <<38, 39>>) @@ ("setMidnightMode" :> <<40, 41>>)
        @@ ("setBassMix" :> <<42, 43>>) @@ ("setCineEq" :> <<44, 45>>)
        @@ ("setVerbose" :> <<103, 104>>)
        @@ ("setInputMenuMode" :> <<110, 111>>)
        @@ ("setSpeakerMenuMode" :> <<112, 113>>)

\* the position of each selectable input in the protocol's list of inputs
InputNumber ==
    ("VIP1" :> 1) @@ ("VIP2" :> 2) @@ ("AN3" :> 3) @@ ("AN4" :> 4)
        @@ ("AN5" :> 5) @@ ("AN6" :> 6) @@ ("OP1" :> 7) @@ ("OP2" :> 8)
        @@ ("CO1" :> 9) @@ ("CO2" :> 10)

\* the command the protocol maps the called transition to, where it has one
\* (it has none for the inputs 'Multi' and 'Future')
HasMappedCommand(call) ==
    call.op \in {"setInput", "setInputLabel"} => call.input \in DOMAIN InputNumber
MappedCommand(call) ==
    IF call.op \in DOMAIN OnOffCommands
    THEN <<OnOffCommands[call.op][IF call.flag THEN 1 ELSE 2]>>
    ELSE IF call.op = "setUnits"
    THEN <<IF call.label = "Feet" THEN 114 ELSE 115>>
    ELSE IF call.op = "setVolume" THEN <<35, call.num>>
    ELSE IF call.op = "setInput" THEN <<46 + InputNumber[call.input]>>
    ELSE <<66 + InputNumber[call.input],
           IF call.label \in StandardLabels THEN 0
           ELSE IF call.label = "---" THEN 23
           ELSE CHOOSE k \in 1..Len(PresetLabels) : PresetLabels[k] = call.label>>

\* C20 (effective setters): a setter called with a value the cache does not
\* hold queues exactly one command, at the end of the queue, and it is the
\* command mapped to that transition; this includes setInput to 'Multi' or
\* 'Future' and setInputLabel to the input's own default label.
C20_EffectiveSetters ==
    [][(setterCalls' = setterCalls + 1 /\ CalledWithOtherValue(lastCall', state))
          => /\ Len(sendBuffer') = Len(sendBuffer) + 1
             /\ SubSeq(sendBuffer', 1, Len(sendBuffer)) = sendBuffer
             /\ HasMappedCommand(lastCall')
                   => sendBuffer'[Len(sendBuffer')] = MappedCommand(lastCall')]_vars

(* ===================================================================== *)
(* The volume timer: the volume setters, the status responses that bring *)
(* a volume, and the timer setVolume starts, with time passing. The       *)
(* transmitter's own timers run beside this one and share nothing with    *)
(* it; they stand still here.                                             *)
(* ===================================================================== *)

\* the status syncTelevisionVolume reports: volume | (mute ? 0x80 : 0)
AudioStatus(system) == BitOr(system.volume, IF system.mute THEN 128 ELSE 0)

\* a timer of setVolume is due: syncTelevisionVolume runs
syncTelevisionVolume(timer) ==
    /\ timer \in timers
    /\ timer.wait = 0
    /\ timers' = timers \ {timer}
    /\ cecSent' = Append(cecSent, [status |-> AudioStatus(state.system),
                                   handle |-> timer.handle,
                                   sinceChange |-> sinceVolumeChange])
    /\ lastCall' = [op |-> "timer", flag |-> FALSE, num |-> 0, input |-> "",
                    label |-> "", bytes |-> <<>>]
    /\ UNCHANGED <<opened, sendBuffer, enqueued, started, state,
                   volumeChangeTimeout, stateChangeCount, readyCount,
                   setterCalls, decoded, sinceVolumeChange, notifications,
                   lastSent, outsideVars>>
    /\ PortIdle

\* d ms pass, no timer of the facade being due before they have
VolumeAdvance(d) ==
    /\ \A timer \in timers : timer.wait >= d
    /\ timers' = {[timer EXCEPT !.wait = @ - d] : timer \in timers}
    /\ sinceVolumeChange' =
          IF volumeChangeTimeout = 0 THEN sinceVolumeChange
          ELSE Min(sinceVolumeChange + d, VolumeClockCap)
    /\ lastCall' = [op |-> "time", flag |-> FALSE, num |-> d, input |-> "",
                    label |-> "", bytes |-> <<>>]
    /\ UNCHANGED <<opened, sendBuffer, enqueued, started, state,
                   volumeChangeTimeout, stateChangeCount, readyCount,
                   setterCalls, decoded, cecSent, notifications,
                   lastSent, outsideVars>>
    /\ PortIdle

\* a status response arrives
VolumeStatus(chunk) ==
    /\ stateChangeCount < MaxVolumeFrames
    /\ ParserDataHandled(chunk, FALSE)
    /\ UNCHANGED inbox

\* the volume setters are called
VolumeSet(volume) ==
    /\ setterCalls < MaxVolumeCalls
    /\ SetVolumeCalled(volume)

VolumeUp ==
    /\ setterCalls < MaxVolumeCalls
    /\ IncrementVolumeCalled

VolumeDown ==
    /\ setterCalls < MaxVolumeCalls
    /\ DecrementVolumeCalled

VolumeNext ==
    \/ PortReady
    \/ \E chunk \in VolumeChunks : VolumeStatus(chunk)
    \/ \E volume \in VolumeArgs : VolumeSet(volume)
    \/ VolumeUp
    \/ VolumeDown
    \/ \E timer \in timers : syncTelevisionVolume(timer)
    \/ \E d \in VolumeTimeSteps : VolumeAdvance(d)

VolumeSpec == Init /\ [][VolumeNext]_vars

(* ===================================================================== *)
(* The facade with a listener for 'stateChange' added from outside, which *)
(* keeps the two states each event hands it.                              *)
(* ===================================================================== *)

\* a chunk arrives while the listener is there
NotifyData(chunk) ==
    /\ stateChangeCount < MaxNotified
    /\ ParserDataHandled(chunk, TRUE)
    /\ UNCHANGED inbox

NotifyNext ==
    \/ PortReady
    \/ \E chunk \in NotifyChunks : NotifyData(chunk)
    \/ CallsLeft /\ \E power \in BOOLEAN : setPower(power)
    \/ \E volume \in VolumeArgs : setVolume(volume)
    \/ CallsLeft /\ \E input \in InputArgs : setInput(input)
    \/ CallsLeft /\ \E units \in {"Feet", "Metres"} : setUnits(units)

NotifySpec == Init /\ [][NotifyNext]_vars

(* ===================================================================== *)
(* The transmitter running, with responses arriving in between.           *)
(* ===================================================================== *)

\* variant: a chunk that arrives during a send waits for the send to end
DuplexDataWhenIdle(chunk) ==
    /\ ~sending
    /\ stateChangeCount < MaxDuplexFrames
    /\ opened
    /\ lastCall' = [op |-> "data", flag |-> FALSE, num |-> 0, input |-> "",
                    label |-> "", bytes |-> chunk]
    /\ processAV2Response(TrimEnd(SubstrFrom(ResponseOf[chunk], 5)), FALSE)
    /\ UNCHANGED inbox
    /\ UNCHANGED <<opened, sendBuffer, enqueued, volumeChangeTimeout,
                   setterCalls, timers, sinceVolumeChange, cecSent,
                   lastSent, device, deviceRead, playerVars>>
    /\ PortIdle

\* a chunk arrives, whatever the transmitter is doing
DuplexData(chunk) ==
    /\ stateChangeCount < MaxDuplexFrames
    /\ ParserDataHandled(chunk, FALSE)
    /\ UNCHANGED inbox

DuplexNext ==
    \/ PortOpen
    \/ Len(enqueued) < MaxDuplexCmds
          /\ \E command \in Commands : SendCommand(command)
    \/ ProcessCommandQueue
    \/ \E i \in 1..Len(chains) : StartTimerFired(i)
    \/ \E i \in 1..Len(chains) : HeaderDrained(i)
    \/ \E i \in 1..Len(chains) : FrameTimerFired(i)
    \/ \E i \in 1..Len(chains) : FrameDrained(i)
    \/ \E d \in TimeSteps : Advance(d)
    \/ \E chunk \in DuplexChunks : DuplexData(chunk)

DuplexSpec == Init /\ [][DuplexNext]_vars

(* ===================================================================== *)
(* The two framings: a payload framed as a command and read back by the   *)
(* parser, and a payload framed as a response.                            *)
(* ===================================================================== *)

\* the bytes the transmitter writes for a payload come back to the parser
Loopback(payload) ==
    /\ stateChangeCount < MaxRoundTrips
    /\ ParserDataHandled(DelimitedChunk(FrameBytes(payload)), FALSE)
    /\ UNCHANGED inbox

\* the device sends a response with the payload
Response(payload) ==
    /\ stateChangeCount < MaxRoundTrips
    /\ ParserDataHandled(Frame(payload), FALSE)
    /\ UNCHANGED inbox

RoundTripNext ==
    \/ PortReady
    \/ \E payload \in RoundTripPayloads : Loopback(payload)
    \/ \E payload \in RoundTripPayloads : Response(payload)

RoundTripSpec == Init /\ [][RoundTripNext]_vars

(* ===================================================================== *)
(* The decoder alone: processAV2Response handed one string.               *)
(* ===================================================================== *)

\* the port emits 'command' and the facade's listener hands the string to
\* processAV2Response
PortCommand(command) ==
    /\ opened
    /\ stateChangeCount < MaxDecodes
    /\ lastCall' = [op |-> "command", flag |-> FALSE, num |-> 0,
                    input |-> "", label |-> "", bytes |-> command]
    /\ processAV2Response(command, FALSE)
    /\ UNCHANGED inbox
    /\ UNCHANGED <<opened, sendBuffer, enqueued, volumeChangeTimeout,
                   setterCalls, timers, sinceVolumeChange, cecSent,
                   lastSent, device, deviceRead, playerVars>>
    /\ PortIdle

DecodeNext ==
    \/ PortReady
    \/ \E command \in DecodeCommands : PortCommand(command)

DecodeSpec == Init /\ [][DecodeNext]_vars

(* ===================================================================== *)
(* Startup: the port opens and the transmitter works off the queue.       *)
(* ===================================================================== *)

StartupNext ==
    \/ PortReady
    \/ CallsLeft /\ \E power \in BOOLEAN : setPower(power)
    \/ CallsLeft /\ \E verbose \in BOOLEAN : setVerbose(verbose)
    \/ ProcessCommandQueue
    \/ \E i \in 1..Len(chains) : StartTimerFired(i)
    \/ \E i \in 1..Len(chains) : HeaderDrained(i)
    \/ \E i \in 1..Len(chains) : FrameTimerFired(i)
    \/ \E i \in 1..Len(chains) : FrameDrained(i)
    \/ \E d \in TimeSteps : Advance(d)

StartupSpec == Init /\ [][StartupNext]_vars

(* ===================================================================== *)
(* Responses whose last data byte may be a whitespace character.          *)
(* ===================================================================== *)

StripData(chunk) ==
    /\ stateChangeCount < MaxDecodes
    /\ ParserDataHandled(chunk, FALSE)
    /\ UNCHANGED inbox

StripNext ==
    \/ PortReady
    \/ \E chunk \in StripChunks : StripData(chunk)

StripSpec == Init /\ [][StripNext]_vars

(* ===================================================================== *)
(* Responses cut short, with a listener for 'stateChange'.                *)
(* ===================================================================== *)

ShortData(chunk) ==
    /\ stateChangeCount < MaxShortFrames
    /\ ParserDataHandled(chunk, TRUE)
    /\ UNCHANGED inbox

ShortNext ==
    \/ PortReady
    \/ \E chunk \in ShortChunks : ShortData(chunk)

ShortSpec == Init /\ [][ShortNext]_vars

(* ===================================================================== *)
(* The facade, the transmitter and an amplifier that applies every        *)
(* command it receives and reports its state after each one that changes  *)
(* it.                                                                    *)
(* ===================================================================== *)

\* the commands such an amplifier answers with a SYSTEM_STATUS
AnsweredCommands ==
    {NaimAV2Commands.ON, NaimAV2Commands.STANDBY, NaimAV2Commands.MUTE_ON,
     NaimAV2Commands.MUTE_OFF, NaimAV2Commands.STATUS_QUERY}
        \cup {InputCommand(input) : input \in SelectableInputs}
        \cup {NaimAV2Commands.VOLUME \o <<v>> : v \in DeviceVolumes}

\* the amplifier's state after it has applied a command
DeviceAfter(d, command) ==
    IF command = NaimAV2Commands.ON THEN [d EXCEPT !.power = TRUE]
    ELSE IF command = NaimAV2Commands.STANDBY THEN [d EXCEPT !.power = FALSE]
    ELSE IF command = NaimAV2Commands.MUTE_ON THEN [d EXCEPT !.mute = TRUE]
    ELSE IF command = NaimAV2Commands.MUTE_OFF THEN [d EXCEPT !.mute = FALSE]
    ELSE IF \E input \in SelectableInputs : InputCommand(input) = command
    THEN [d EXCEPT !.currentInput =
             CHOOSE input \in SelectableInputs : InputCommand(input) = command]
    ELSE IF Len(command) = 2 /\ <<command[1]>> = NaimAV2Commands.VOLUME
            /\ command[2] \in DeviceVolumes
    THEN [d EXCEPT !.volume = command[2]]
    ELSE d

\* the next complete frame written reaches the amplifier (a frame whose
\* write failed does not), which applies it and answers
DeviceReceives ==
    /\ deviceRead < Len(FramesWritten)
    /\ deviceRead' = deviceRead + 1
    /\ LET written == FramesWritten[deviceRead + 1]
           command == PayloadOfFrame(written.bytes)
       IN  IF written.failed
           THEN UNCHANGED <<device, inbox>>
           ELSE /\ device' = DeviceAfter(device, command)
                /\ inbox' = IF command \in AnsweredCommands
                            THEN Append(inbox, DeviceStatus(device'))
                            ELSE inbox
    /\ UNCHANGED <<opened, tickWait, sendBuffer, sending,
                   sinceLastSendCommandEnd, sinceLastStart, chains, wire,
                   enqueued, errors>>
    /\ UNCHANGED <<facadeVars, playerVars>>

\* the parser delivers the oldest response the amplifier has sent
DeviceData ==
    /\ inbox /= <<>>
    /\ inbox' = Tail(inbox)
    /\ ParserDataHandled(Head(inbox), FALSE)

\* the amplifier has read every frame written and the parser has delivered
\* every response
DeviceIdle == deviceRead = Len(FramesWritten) /\ inbox = <<>>

\* a frame reaches the amplifier and its answer reaches the parser before
\* the transmitter's next timer or drain callback runs; setters are called
\* at any moment
ConvergeNext ==
    \/ PortReady
    \/ CallsLeft /\ \E power \in BOOLEAN : setPower(power)
    \/ CallsLeft /\ \E mute \in BOOLEAN : setMute(mute)
    \/ \E volume \in DeviceVolumes : setVolume(volume)
    \/ CallsLeft /\ \E input \in InputArgs : setInput(input)
    \/ DeviceIdle /\ ProcessCommandQueue
    \/ DeviceIdle /\ \E i \in 1..Len(chains) : StartTimerFired(i)
    \/ DeviceIdle /\ \E i \in 1..Len(chains) : HeaderDrained(i)
    \/ DeviceIdle /\ \E i \in 1..Len(chains) : FrameTimerFired(i)
    \/ DeviceIdle /\ \E i \in 1..Len(chains) : FrameDrained(i)
    \/ DeviceIdle /\ \E d \in TimeSteps : Advance(d)
    \/ DeviceReceives
    \/ DeviceData

ConvergeSpec == Init /\ [][ConvergeNext]_vars

(* ===================================================================== *)
(* Setters called twice over, with a response before or between.          *)
(* ===================================================================== *)

\* a system status (input menu entered, display on) or a speaker menu
\* status (units Feet) arrives
RepeatData(chunk) ==
    /\ stateChangeCount < MaxRepeatFrames
    /\ ParserDataHandled(chunk, FALSE)
    /\ UNCHANGED inbox

RepeatCallsLeft == setterCalls < MaxRepeatCalls

RepeatNext ==
    \/ PortReady
    \/ \E chunk \in {Frame(SYSTEM_PAYLOAD), Frame(SPEAKER_PAYLOAD)} :
          RepeatData(chunk)
    \/ RepeatCallsLeft /\ \E power \in BOOLEAN : setPower(power)
    \/ RepeatCallsLeft /\ \E mute \in BOOLEAN : setMute(mute)
    \/ RepeatCallsLeft /\ \E display \in BOOLEAN : setDisplay(display)
    \/ RepeatCallsLeft /\ \E midnightMode \in BOOLEAN :
                              setMidnightMode(midnightMode)
    \/ RepeatCallsLeft /\ \E bassMix \in BOOLEAN : setBassMix(bassMix)
    \/ RepeatCallsLeft /\ \E cineEq \in BOOLEAN : setCineEq(cineEq)
    \/ RepeatCallsLeft /\ \E verbose \in BOOLEAN : setVerbose(verbose)
    \/ RepeatCallsLeft /\ \E inputMenu \in BOOLEAN :
                              setInputMenuMode(inputMenu)
    \/ RepeatCallsLeft /\ \E speakerMenu \in BOOLEAN :
                              setSpeakerMenuMode(speakerMenu)
    \/ RepeatCallsLeft /\ \E input \in InputArgs : setInput(input)
    \/ RepeatCallsLeft /\ \E units \in {"Feet", "Metres"} : setUnits(units)
    \/ RepeatCallsLeft /\ \E volume \in VolumeArgs : SetVolumeCalled(volume)

RepeatSpec == Init /\ [][RepeatNext]_vars

(* ===================================================================== *)
(* The television sends STANDBY over CEC.                                 *)
(* ===================================================================== *)

\* the options the facade is constructed with
defaultOptions ==
    [comPort |-> "/dev/ttyUSB0", osdName |-> "Naim AV2", tvInput |-> "OP1"]

\* the logical addresses a CEC packet is sent to
CecTargets == {"TV", "PLAYBACKDEVICE1", "AUDIOSYSTEM", "BROADCAST"}

\* the handler returns without calling a setter
Ignored ==
    /\ UNCHANGED <<opened, sendBuffer, enqueued, lastSent, state, started,
                   volumeChangeTimeout, timers, sinceVolumeChange,
                   stateChangeCount, readyCount, decoded>>
    /\ PortIdle

\* variant: the handler does not look at the current input
cecStandbyOnAnyInput(target) ==
    /\ lastCall' = [op |-> "op.STANDBY", flag |-> FALSE, num |-> 0,
                    input |-> target, label |-> "", bytes |-> <<>>]
    /\ IF target /= "AUDIOSYSTEM" /\ target /= "BROADCAST" THEN Ignored
       ELSE IF state.system.power THEN SetPowerBody(FALSE)
       ELSE Ignored
    /\ UNCHANGED <<setterCalls, cecSent, notifications, outsideVars>>

\* the listener for 'op.STANDBY', handed a packet with the given target
cecStandby(target) ==
    /\ lastCall' = [op |-> "op.STANDBY", flag |-> FALSE, num |-> 0,
                    input |-> target, label |-> "", bytes |-> <<>>]
    /\ IF target /= "AUDIOSYSTEM" /\ target /= "BROADCAST" THEN Ignored
       ELSE IF state.system.currentInput /= defaultOptions.tvInput
       THEN Ignored
       ELSE IF state.system.power THEN SetPowerBody(FALSE)
       ELSE Ignored
    /\ UNCHANGED <<setterCalls, cecSent, notifications, outsideVars>>

\* a system status arrives: power on or off, input OP1 or AN3
CecData(chunk) ==
    /\ stateChangeCount < MaxCecFrames
    /\ ParserDataHandled(chunk, FALSE)
    /\ UNCHANGED inbox

CecNext ==
    \/ PortReady
    \/ \E power \in BOOLEAN, input \in {"OP1", "AN3"} :
          CecData(DeviceStatus([power |-> power, mute |-> FALSE,
                                volume |-> 50, currentInput |-> input]))
    \/ CallsLeft /\ \E power \in BOOLEAN : setPower(power)
    \/ CallsLeft /\ \E input \in InputArgs : setInput(input)
    \/ \E target \in CecTargets : cecStandby(target)

CecSpec == Init /\ [][CecNext]_vars

(* ------------------------------ C21 ----------------------------------- *)

\* a step in which the named volume setter is called
VolumeCallStep(op) ==
    /\ setterCalls' = setterCalls + 1
    /\ lastCall'.op = op

\* the level the claim gives for a step up and for a step down from v
SteppedUp(v) == IF v = 99 THEN 99 ELSE IF v = 9 THEN 11 ELSE v + 1
SteppedDown(v) == IF v = 0 THEN 0 ELSE IF v = 11 THEN 9 ELSE v - 1

\* the step takes the cached volume to level and queues what the claim
\* says: one VOLUME command with the new level when the volume changes,
\* nothing when it does not
SteppedTo(level) ==
    /\ state'.system.volume = level
    /\ level /= 10
    /\ LET queued == IF level = state.system.volume THEN <<>>
                     ELSE <<NaimAV2Commands.VOLUME \o <<level>> >>
       IN  /\ sendBuffer' = sendBuffer \o queued
           /\ enqueued' = enqueued \o queued

\* C21: with a cached volume v in 0..99, incrementVolume sets the volume to
\* v+1 except 9 -> 11 and 99 -> 99 and decrementVolume sets it to v-1 except
\* 11 -> 9 and 0 -> 0; neither gives 10; a step that changes the volume
\* queues exactly one VOLUME command with the new level and a saturated step
\* queues nothing
C21_VolumeStepping ==
    [][state.system.volume \in 0..99 =>
          /\ VolumeCallStep("incrementVolume")
                => SteppedTo(SteppedUp(state.system.volume))
          /\ VolumeCallStep("decrementVolume")
                => SteppedTo(SteppedDown(state.system.volume))]_vars

\* a step down to 9 was followed by a step up from 9, which queued VOLUME
\* with level 11
C21_Witness ==
    /\ lastCall.op = "incrementVolume"
    /\ state.system.volume = 11
    /\ Len(enqueued) >= 2
    /\ SubSeq(enqueued, Len(enqueued) - 1, Len(enqueued))
          = <<NaimAV2Commands.VOLUME \o <<9>>,
              NaimAV2Commands.VOLUME \o <<11>> >>

(* ------------------------------ C22 ----------------------------------- *)

\* a step in which a setter call changes the cached volume
VolumeChangeStep ==
    /\ setterCalls' = setterCalls + 1
    /\ state'.system.volume /= state.system.volume

\* a step in which syncTelevisionVolume sends the audio status
SyncStep == Len(cecSent') = Len(cecSent) + 1

\* the statuses sent for the timer with this handle
SentFor(sent, handle) == {k \in 1..Len(sent) : sent[k].handle = handle}

\* C22: at most one volume timer is pending at any time; each volume change
\* made by a setter replaces the pending timer by one of 1000 ms; the audio
\* status is sent only when 1000 ms have passed since the last change, so a
\* burst of changes less than 1000 ms apart gives exactly one, which holds
\* the volume and the mute flag cached when it is sent
C22_VolumeSyncDebounce ==
    [][/\ Cardinality(timers') <= 1
       /\ VolumeChangeStep
             => timers' = {[handle |-> volumeChangeTimeout',
                            wait |-> SYNC_DELAY]}
       /\ SyncStep
             => /\ sinceVolumeChange = SYNC_DELAY
                /\ cecSent'[Len(cecSent')].status
                      = BitOr(state.system.volume,
                              IF state.system.mute THEN 128 ELSE 0)
                /\ cecSent'[Len(cecSent')].handle = volumeChangeTimeout
       /\ \A handle \in 1..volumeChangeTimeout' :
             Cardinality(SentFor(cecSent', handle)) <= 1
       /\ (volumeChangeTimeout' > 0 /\ sinceVolumeChange' > SYNC_DELAY)
             => Cardinality(SentFor(cecSent', volumeChangeTimeout')) = 1]_vars

\* two volume changes came in a burst and one audio status was sent for
\* them, with the mute flag a status response brought in between
C22_Witness ==
    /\ volumeChangeTimeout = 2
    /\ Len(cecSent) = 1
    /\ cecSent[1].handle = 2
    /\ cecSent[1].status = 128 + 5

(* ------------------------------ C23 ----------------------------------- *)

\* the sub-record a response leaves when it is the first thing the facade
\* decodes after construction
DecodedAlone(chunk, sub) ==
    StateAfterCase(InitialState, CaseOfCode[CodeByte(chunk)],
                   TrimEnd(SubstrFrom(ResponseOf[chunk], 5)))[sub]

\* C23: the decode of a response with code X changes sub-record X only, the
\* other sub-records keeping the values they had, and leaves in sub-record
\* X what the payload alone determines, whatever the sub-record held
\* before, values written by setters included
C23_WholesaleReplacement ==
    [][\A sub \in SubRecords :
          /\ (DataStep(lastCall'.bytes) /\ ~MatchingDecodeStep(sub))
                => state'[sub] = state[sub]
          /\ MatchingDecodeStep(sub)
                => state'[sub] = DecodedAlone(lastCall'.bytes, sub)]_vars

\* setVolume(150) wrote the cache, the input menu was decoded, and then a
\* system status replaced the system record, the volume with it
C23_Witness ==
    /\ \E k \in 1..Len(enqueued) :
          enqueued[k] = NaimAV2Commands.VOLUME \o <<150>>
    /\ lastCall.op = "data"
    /\ lastCall.bytes = Frame(SYSTEM_PAYLOAD)
    /\ state.system.volume = 50
    /\ state.input /= InitialState.input

(* ------------------------------ C25 ----------------------------------- *)

\* a step in which a response with a valid header and one of the five
\* decoded codes arrives
DecodeStep == \E sub \in SubRecords : MatchingDecodeStep(sub)

\* C25: the listener receives one notification for each decoded response, in
\* the order the responses arrive, each with the whole state as it was just
\* before that decode as previous state and the state just after it as new
\* state
C25_NotificationContent ==
    [][IF DecodeStep
       THEN notifications' =
               Append(notifications, [state |-> state', prevState |-> state])
       ELSE notifications' = notifications]_vars

(* ------------------------------ C24 ----------------------------------- *)

\* a step in which a response is decoded
DecodedStep == stateChangeCount' = stateChangeCount + 1

\* C24: a response that arrives while a send is in progress, at whatever
\* step of the chain, is decoded and applied to the state at once, and the
\* decode of a response changes neither the queue nor the busy flag nor the
\* time the last command ended
C24_InboundIndependent ==
    /\ []((sending /\ stateChangeCount < MaxDuplexFrames)
             => \A chunk \in DuplexChunks : ENABLED DuplexData(chunk))
    /\ [][DecodedStep =>
             /\ \A sub \in SubRecords :
                   MatchingDecodeStep(sub)
                      => state'[sub] = DecodedAlone(lastCall'.bytes, sub)
             /\ UNCHANGED <<sendBuffer, sending, sinceLastSendCommandEnd,
                            chains, wire>>]_vars

\* the system status was decoded while the one send in progress was waiting
\* for the drain of its lone header byte, with a command still queued
C24_Witness ==
    /\ lastCall.op = "data"
    /\ state.system.volume = 50
    /\ sending
    /\ Len(chains) = 1
    /\ chains[1].stage = "headerDrain"
    /\ Len(sendBuffer) > 0

(* ------------------------------ C26 ----------------------------------- *)

\* C26: for every payload without the byte 0xFF, the parser's handler, given
\* the frame the transmitter writes for the payload, emits the payload: the
\* decode of the encoded payload is the payload
C26_FrameRoundTrip ==
    \A payload \in RoundTripPayloads :
        (lastCall.op = "data"
            /\ lastCall.bytes = DelimitedChunk(FrameBytes(payload)))
           => EmittedCommands(lastCall.bytes) = <<payload>>

(* ------------------------------ C27 ----------------------------------- *)

\* the string processAV2Response was handed last, when it was a status with
\* the given code and at least the given number of characters
Handed(code, length) ==
    /\ lastCall.op = "command"
    /\ Len(lastCall.bytes) >= length
    /\ lastCall.bytes[1] = code

\* byte[i] of the string handed last, and whether its bit k is set
HandedByte(i) == lastCall.bytes[i + 1]
BitIsSet(byte, k) == (byte \div (2 ^ k)) % 2 = 1

InputsByCode ==
    <<"VIP1", "VIP2", "AN3", "AN4", "AN5", "AN6", "OP1", "OP2", "CO1", "CO2",
      "Multi">>
DecodeModesFrom0 ==
    <<"Direct", "Mono", "Stereo", "PLII Music", "PLII Movie", "Neo:6 Cinema",
      "Neo:6 Music", "Neo:6", "DTS", "DTS ES-Matrix", "DTS ES-Discrete",
      "Dolby Digital", "Dolby Digital EX", "No signal", "Multi", "---", "1/1",
      "1/0", "2/0", "3/0", "2/1", "3/1", "2/2", "3/2">>
DecodeModesFrom48 ==
    <<"1/1.1", "1/0.1", "2/0.1", "3/0.1", "2/1.1", "3/1.1", "2/2.1", "3/2.1">>

LabelFieldOfByte ==
    <<"vip1InputLabel", "vip2InputLabel", "an3InputLabel", "an4InputLabel",
      "an5InputLabel", "an6InputLabel", "co1InputLabel", "co2InputLabel",
      "op1InputLabel", "op2InputLabel">>
DefaultNameOfByte ==
    <<"AN1", "AN2", "AN3", "AN4", "AN5", "AN6", "CO1", "CO2", "OP1", "OP2">>
Vocabulary ==
    <<"DVD", "LASER", "TV", "SAT", "CABLE", "HDR", "VCR", "GAME", "PC",
      "PREAMP", "CD", "CDR", "TUNER", "DAB", "MD", "DAT", "TAPE", "AUX",
      "DVDA", "SACD">>

LevelFieldOfByte ==
    (15 :> "speakerLevelLeft") @@ (16 :> "speakerLevelCentre")
        @@ (17 :> "speakerLevelRight") @@ (18 :> "speakerLevelRightSurround")
        @@ (19 :> "speakerLevelRightRear") @@ (20 :> "speakerLevelLeftRear")
        @@ (21 :> "speakerLevelLeftSurround")
        @@ (22 :> "speakerLevelSubwoofer")
DistanceFieldOfByte ==
    (7 :> "speakerDistanceLeft") @@ (8 :> "speakerDistanceCentre")
        @@ (9 :> "speakerDistanceRight")
        @@ (10 :> "speakerDistanceRightSurround")
        @@ (11 :> "speakerDistanceRightRear")
        @@ (12 :> "speakerDistanceLeftRear")
        @@ (13 :> "speakerDistanceLeftSurround")
        @@ (14 :> "speakerDistanceSubwoofer")

C31_SpeakerLevelRange ==
    \A i \in DOMAIN LevelFieldOfByte :
        state.speaker[LevelFieldOfByte[i]] \in (0 - 30)..30

(* ------------------------------ C32 ----------------------------------- *)

\* the serial port opens in this step
OpenStep == ~opened /\ opened'

\* s is the beginning of t
IsPrefix(s, t) == Len(s) <= Len(t) /\ s = SubSeq(t, 1, Len(s))

\* C32: when the serial port opens with the cached verbose false, the
\* facade hands sendCommand VERBOSE_ON, STATUS_QUERY, INPUT_MENU_QUERY,
\* SPEAKER_MENU_QUERY, SOFTWARE_VERSION_QUERY, FIRMWARE_VERSION_QUERY and
\* EXTRA_STATUS_QUERY, in that order and behind what was queued before; the
\* frames written carry the commands in the order they were handed over;
\* and each command is sent on its own, one send at a time, as a lone header
\* byte followed by the complete frame.
C32_StartupSequence ==
    /\ [][(OpenStep /\ ~state.system.verbose) =>
            /\ enqueued' = enqueued \o <<<<103>>, <<105>>, <<106>>, <<107>>,
                                        <<108>>, <<109>>, <<144>>>>
            /\ sendBuffer' = sendBuffer \o <<<<103>>, <<105>>, <<106>>,
                                            <<107>>, <<108>>, <<109>>,
                                            <<144>>>>]_vars
    /\ [](/\ IsPrefix(WrittenPayloads, enqueued)
          /\ Len(chains) <= 1
          /\ \A k \in 1..Len(wire) :
                wire[k].kind = (IF k % 2 = 1 THEN "header" ELSE "frame")
          /\ Len(chains) = 1 => sending)

\* the port opened with nothing queued before, and the seven startup
\* commands have all been written, each after its own header byte
C32_Witness ==
    /\ Len(wire) = 14
    /\ WrittenPayloads = <<<<103>>, <<105>>, <<106>>, <<107>>, <<108>>,
                           <<109>>, <<144>>>>
    /\ enqueued = WrittenPayloads
    /\ ~sending

(* ------------------------------ C33 ----------------------------------- *)

\* the payload a chunk carries behind its five header bytes
PayloadOfChunk(chunk) == SubSeq(chunk, 6, Len(chunk))

\* C33: after a complete status response is decoded, the sub-record it is
\* for holds what the decode of the payload as transmitted gives, byte
\* position by byte position, also when the last data byte is a whitespace
\* character: stripping the trailing whitespace takes no data byte away
C33_TrailingStripPreserves ==
    (lastCall.op = "data" /\ lastCall.bytes \in StripChunks) =>
        LET payload == PayloadOfChunk(lastCall.bytes)
        IN  /\ payload[1] = 105 => state.system = SystemOf(payload)
            /\ payload[1] = 107 => state.speaker = SpeakerOf(payload)
            /\ payload[1] = 109 =>
                  state.firmware.firmwareVersion = FirmwareVersionOf(payload)

(* ------------------------------ C34 ----------------------------------- *)

\* nothing is queued or being sent, every frame written has reached the
\* amplifier and every response it sent has been decoded
Quiescent ==
    /\ opened
    /\ sendBuffer = <<>>
    /\ ~sending
    /\ chains = <<>>
    /\ DeviceIdle

\* C34: with an amplifier that applies every command transmitted and
\* answers each state-changing one with a SYSTEM_STATUS of its resulting
\* state, whenever the queue is empty, no send is in progress and all
\* responses have been decoded, the cached power, mute, volume and current
\* input are the amplifier's, after any setter calls (no write or drain
\* having failed)
C34_CacheConverges ==
    (Quiescent /\ errors = 0) =>
        /\ state.system.power = device.power
        /\ state.system.mute = device.mute
        /\ state.system.volume = device.volume
        /\ state.system.currentInput = device.currentInput

(* ------------------------------ C35 ----------------------------------- *)

\* the setters that write the cache when called, and those that only send
OptimisticSetters ==
    {"setPower", "setMute", "setDisplay", "setMidnightMode", "setBassMix",
     "setCineEq", "setVerbose", "setVolume", "setInput"}
ConfirmedSetters == {"setInputMenuMode", "setSpeakerMenuMode", "setUnits"}

\* a setter is called in this step
AnyCallStep == setterCalls' = setterCalls + 1

\* a setter is called in this step with the arguments of the call before,
\* nothing having been decoded in between
RepeatedCallStep ==
    /\ AnyCallStep
    /\ setterCalls >= 1
    /\ lastCall' = lastCall

\* C35: setPower, setMute, setDisplay, setMidnightMode, setBassMix,
\* setCineEq, setVerbose, setVolume and setInput write the cache in the call
\* that sends a command, and the same call made again before any response
\* queues nothing; setInputMenuMode, setSpeakerMenuMode and setUnits never
\* touch the cache, and the same call made again before a response is
\* decoded queues what the first call queued once more
C35_SetterUpdatePolicy ==
    [][/\ (AnyCallStep /\ lastCall'.op \in OptimisticSetters
              /\ lastSent' /= <<>>) => state' /= state
       /\ (AnyCallStep /\ lastCall'.op \in ConfirmedSetters) => state' = state
       /\ (RepeatedCallStep /\ lastCall.op \in OptimisticSetters) =>
             /\ lastSent' = <<>>
             /\ enqueued' = enqueued
             /\ sendBuffer' = sendBuffer
       /\ (RepeatedCallStep /\ lastCall.op \in ConfirmedSetters) =>
             /\ lastSent' = lastSent
             /\ enqueued' = enqueued \o lastSent
             /\ sendBuffer' = sendBuffer \o lastSent]_vars

\* with the input menu entered according to the cache,
\* setInputMenuMode(false) was called twice and EXIT_INPUT_MENU was queued
\* both times
C35_Witness ==
    /\ setterCalls = 2
    /\ lastCall.op = "setInputMenuMode"
    /\ ~lastCall.flag
    /\ state.system.inputMenu
    /\ lastSent = <<<<111>>>>
    /\ Len(enqueued) >= 2
    /\ enqueued[Len(enqueued)] = <<111>>
    /\ enqueued[Len(enqueued) - 1] = <<111>>

(* ------------------------------ C36 ----------------------------------- *)

\* the listener for 'op.STANDBY' runs in this step
StandbyStep == lastCall'.op = "op.STANDBY"

\* C36: a CEC STANDBY message queues the STANDBY command and sets the cached
\* power off when its target is the audio system or broadcast, the cached
\* current input is the configured TV input (OP1) and the cached power is
\* on; in every other case it queues nothing and leaves the Device State as
\* it is
C36_CecStandbyGuard ==
    [][StandbyStep =>
          IF /\ lastCall'.input \in {"AUDIOSYSTEM", "BROADCAST"}
             /\ state.system.currentInput = "OP1"
             /\ state.system.power
          THEN /\ enqueued' = Append(enqueued, <<34>>)
               /\ sendBuffer' = Append(sendBuffer, <<34>>)
               /\ state' = [state EXCEPT !.system.power = FALSE]
          ELSE UNCHANGED <<enqueued, sendBuffer, state>>]_vars

\* a STANDBY message for the audio system arrived while the cache said
\* power on, input OP1: STANDBY is the last command queued and the cached
\* power is off
C36_Witness ==
    /\ lastCall.op = "op.STANDBY"
    /\ lastCall.input = "AUDIOSYSTEM"
    /\ ~state.system.power
    /\ state.system.currentInput = "OP1"
    /\ lastSent = <<<<34>>>>
    /\ Len(enqueued) >= 1
    /\ enqueued[Len(enqueued)] = <<34>>

(* ------------------------------ C37 ----------------------------------- *)

\* C37: after an INPUT_MENU_STATUS is decoded, getInputLabel(i) returns for
\* each of the ten inputs VIP1, VIP2, AN3, AN4, AN5, AN6, OP1, OP2, CO1, CO2
\* the label the response gave input i, and '---' for Multi and Future
C37_InputLabelGetter ==
    Handed(106, 14) =>
        /\ \A input \in DOMAIN LabelField :
              getInputLabel(input) = state.input[LabelField[input]]
        /\ getInputLabel("Multi") = "---"
        /\ getInputLabel("Future") = "---"

(* ------------------------------ C38 ----------------------------------- *)

\* the chunk is one of the five statuses with fewer bytes than its layout
CutShort(chunk) ==
    \E payload \in LayoutPayloads :
        \E n \in 1..(Len(payload) - 1) : chunk = Frame(SubSeq(payload, 1, n))

\* C38: a response with the header '#AV2 ' whose payload starts with one of
\* the five decoded codes and has fewer bytes than the layout of that
\* status, down to the code byte alone, is decoded like a full one: the
\* sub-record of the code is replaced by what the short payload alone
\* gives, the flag of the code is set (or the startup is marked READY by
\* that step), one 'stateChange' is raised and the listener is handed one
\* more notification.
C38_ShortPayloadAccepted ==
    [][\A chunk \in ShortChunks :
          (DataStep(chunk) /\ CutShort(chunk))
             => /\ state'[SubRecordOfCode[CodeByte(chunk)]]
                      = DecodedAlone(chunk, SubRecordOfCode[CodeByte(chunk)])
                /\ \/ BitAnd(started', StartupFlagOfCode[CodeByte(chunk)]) /= 0
                   \/ started' = NaimAV2StartupState.READY
                /\ stateChangeCount' = stateChangeCount + 1
                /\ Len(notifications') = Len(notifications) + 1]_vars

\* the input menu arrived in full and then as its code byte alone: the
\* labels of the full response are gone, the flag is set and the listener
\* was told twice
C38_Witness ==
    /\ lastCall.op = "data"
    /\ lastCall.bytes = Frame(<<106>>)
    /\ Len(notifications) = 2
    /\ notifications[2].prevState.input
          = DecodedAlone(Frame(INPUT_PAYLOAD), "input")
    /\ state.input = DecodedAlone(Frame(<<106>>), "input")
    /\ state.input /= DecodedAlone(Frame(INPUT_PAYLOAD), "input")
    /\ BitAnd(started, NaimAV2StartupState.GOT_INPUT) /= 0

(* ===================================================================== *)
(* The media player: two interval callbacks that poll the audio outputs   *)
(* and the media info file.                                               *)
(* ===================================================================== *)

\* differing reads after which pollAudioOutputs emits
DEBOUNCE_POLLS == 12

\* what a poll of /proc/asound finds: readdir fails, some card's hw_params
\* is not 'closed', or every card's is
ReadOutcomes == {"err", "playing", "closed"}

\* the contents the media info file is found with
MediaInfos == {"songA", "songB"}

\* nothing of the amplifier's side changes
PlayerOnly ==
    /\ UNCHANGED <<opened, sendBuffer, enqueued, facadeVars, deviceVars>>
    /\ PortIdle

\* the callback of fs.readdir in pollAudioOutputs; successive keeps how many
\* reads in a row, up to this one, differed from the recorded state
pollAudioOutputs(outcome) ==
    /\ Len(emitted) < MaxEvents
    /\ IF outcome = "err"
       THEN UNCHANGED <<playing, debounce, successive, emitted>>
       ELSE LET nowPlaying == (outcome = "playing")
            IN  IF <<nowPlaying>> /= playing
                THEN IF debounce + 1 >= DEBOUNCE_POLLS
                     THEN /\ debounce' = 0
                          /\ playing' = <<nowPlaying>>
                          /\ emitted' = Append(emitted,
                                IF nowPlaying THEN "play" ELSE "stop")
                          /\ successive' = 0
                     ELSE /\ debounce' = debounce + 1
                          /\ successive' = successive + 1
                          /\ UNCHANGED <<playing, emitted>>
                ELSE /\ successive' = 0
                     /\ UNCHANGED <<playing, debounce, emitted>>
    /\ UNCHANGED mediaInfo
    /\ PlayerOnly

\* pollMediaInfoFile with the file holding info
pollMediaInfoFile(info) ==
    /\ Len(emitted) < MaxEvents
    /\ playing = <<TRUE>>
    /\ <<info>> /= mediaInfo
    /\ mediaInfo' = <<info>>
    /\ emitted' = Append(emitted, "mediaChange")
    /\ UNCHANGED <<playing, debounce, successive>>
    /\ PlayerOnly

PlayerNext ==
    \/ \E outcome \in ReadOutcomes : pollAudioOutputs(outcome)
    \/ \E info \in MediaInfos : pollMediaInfoFile(info)

PlayerSpec == Init /\ [][PlayerNext]_vars

(* ------------------------------ C39 ----------------------------------- *)

\* 'play' or 'stop' is emitted in this step
PlayStopStep ==
    /\ Len(emitted') = Len(emitted) + 1
    /\ emitted'[Len(emitted')] \in {"play", "stop"}

\* the 'play' and 'stop' events emitted so far, in order
PlayStops == SelectSeq(emitted, LAMBDA e : e \in {"play", "stop"})

\* C39: 'play' or 'stop' is emitted only by a poll that is the last of
\* DEBOUNCE_POLLS polls in a row that each found a state other than the
\* recorded one, a poll that finds the recorded state starting the run
\* again; after the event the recorded state is the emitted one, and no
\* two 'play' or two 'stop' follow each other.
C39_PlayerDebounce ==
    /\ [][PlayStopStep =>
             /\ successive + 1 >= DEBOUNCE_POLLS
             /\ playing' = <<emitted'[Len(emitted')] = "play">>]_vars
    /\ [](\A k \in 1..(Len(PlayStops) - 1) : PlayStops[k] /= PlayStops[k + 1])

====
